---- MODULE Spec2Model ----
(***************************************************************************)
(* Medicine-Cabinet: the binary codec of AURA tablets (.auratab) and       *)
(* context capsules (.auractx).                                            *)
(*                                                                         *)
(* Conventions.  A byte is an integer 0..255 and a buffer a sequence of    *)
(* bytes.  A Python str is the sequence of its code points.  A raised      *)
(* exception is a string "<Type>: <message>"; NoError is the absence of    *)
(* one.  Python's None is the JSON value JNull.                            *)
(***************************************************************************)
EXTENDS Integers, Sequences, FiniteSets, TLC

NoError == "none"

(***************************************************************************)
(* Sequence helpers.                                                       *)
(***************************************************************************)
\* s[a:b] of Python for 0 <= a, with the slice clipped to the sequence.
Slice(s, a, b) ==
    LET hi == IF b > Len(s) THEN Len(s) ELSE b
    IN  IF a >= hi THEN <<>> ELSE [i \in 1..(hi - a) |-> s[a + i]]

RECURSIVE Concat(_)
\* The concatenation of a sequence of sequences (by halves: the evaluator's
\* stack bounds the depth of a recursion, not its breadth).
Concat(ss) ==
    IF ss = <<>> THEN <<>>
    ELSE IF Len(ss) = 1 THEN ss[1]
    ELSE LET h == Len(ss) \div 2
         IN  Concat(SubSeq(ss, 1, h)) \o Concat(SubSeq(ss, h + 1, Len(ss)))

\* The indices 1..n as a sequence.
Indices(n) == [i \in 1..n |-> i]

(***************************************************************************)
(* struct.pack / struct.unpack_from, big-endian unsigned.                  *)
(***************************************************************************)
RECURSIVE pack(_, _)
\* struct.pack(">H" | ">I" | ">Q", n): the w low-order bytes of n, big-endian.
pack(n, w) == IF w = 0 THEN <<>> ELSE Append(pack(n \div 256, w - 1), n % 256)

RECURSIVE unpack(_)
\* struct.unpack_from on the bytes of a field: the big-endian value.
unpack(bs) ==
    IF bs = <<>> THEN 0 ELSE unpack(SubSeq(bs, 1, Len(bs) - 1)) * 256 + bs[Len(bs)]

\* struct.unpack_from(fmt, buffer, cursor) for a field of w bytes.
unpack_from(buffer, cursor, w) == unpack(Slice(buffer, cursor, cursor + w))

(***************************************************************************)
(* str.encode("utf-8") and bytes.decode("utf-8").                          *)
(***************************************************************************)
IsSurrogate(c) == c >= 55296 /\ c <= 57343

\* The UTF-8 bytes of one code point (surrogates are not encodable).
utf8_char(c) ==
    IF c < 128 THEN <<c>>
    ELSE IF c < 2048 THEN <<192 + (c \div 64), 128 + (c % 64)>>
    ELSE IF c < 65536
         THEN <<224 + (c \div 4096), 128 + ((c \div 64) % 64), 128 + (c % 64)>>
    ELSE <<240 + (c \div 262144), 128 + ((c \div 4096) % 64),
           128 + ((c \div 64) % 64), 128 + (c % 64)>>

utf8_encode(s) == Concat([i \in 1..Len(s) |-> utf8_char(s[i])])

IsCont(b) == b >= 128 /\ b < 192

\* The length of the sequence a lead byte announces (0: not a lead byte).
utf8_width(b0) ==
    IF b0 < 128 THEN 1
    ELSE IF b0 >= 194 /\ b0 < 224 THEN 2
    ELSE IF b0 >= 224 /\ b0 < 240 THEN 3
    ELSE IF b0 >= 240 /\ b0 < 245 THEN 4
    ELSE 0

\* The code point of the sequence that starts at i, or -1 when it is
\* ill-formed: a bad lead byte, a missing continuation byte, an overlong
\* form, a surrogate, a value above U+10FFFF.
utf8_code_at(bs, i) ==
    LET b0 == bs[i]
        w == utf8_width(b0)
        c(j) == bs[i + j] - 128
    IN  IF w = 0 \/ i + w - 1 > Len(bs) \/ \E j \in 1..(w - 1) : ~IsCont(bs[i + j])
        THEN -1
        ELSE IF w = 1 THEN b0
        ELSE IF w = 2 THEN (b0 - 192) * 64 + c(1)
        ELSE IF w = 3
             THEN LET cp == (b0 - 224) * 4096 + c(1) * 64 + c(2)
                  IN  IF cp < 2048 \/ IsSurrogate(cp) THEN -1 ELSE cp
        ELSE LET cp == (b0 - 240) * 262144 + c(1) * 4096 + c(2) * 64 + c(3)
             IN  IF cp < 65536 \/ cp > 1114111 THEN -1 ELSE cp

\* bytes.decode("latin-1"): every byte is a character, and none is refused.
utf8_decode_latin1(bs) == [ok |-> TRUE, s |-> bs]

\* bytes.decode("utf-8"), strict: [ok, s].  Every byte that is not a
\* continuation byte must start a well-formed sequence, and every
\* continuation byte must belong to the sequence of the lead byte before it.
utf8_decode(bs) ==
    LET lead(i) == ~IsCont(bs[i])
        leads == SelectSeq(Indices(Len(bs)), lead)
        owned(j) == \E i \in 1..j : /\ lead(i)
                                    /\ \A k \in (i + 1)..j : ~lead(k)
                                    /\ j - i < utf8_width(bs[i])
        ok == /\ \A k \in 1..Len(leads) : utf8_code_at(bs, leads[k]) >= 0
              /\ \A j \in 1..Len(bs) : lead(j) \/ owned(j)
    IN  IF ok THEN [ok |-> TRUE, s |-> [k \in 1..Len(leads) |-> utf8_code_at(bs, leads[k])]]
        ELSE [ok |-> FALSE, s |-> <<>>]

(***************************************************************************)
(* JSON values.  Every value is a record [t, s, a]: t the type tag, s the   *)
(* code points of a string or of a number's text, a the items of an array  *)
(* or the [k, v] pairs of an object in insertion order, as a Python dict   *)
(* keeps them.                                                             *)
(***************************************************************************)
JNull == [t |-> "null", s |-> <<>>, a |-> <<>>]
JTrue == [t |-> "true", s |-> <<>>, a |-> <<>>]
JFalse == [t |-> "false", s |-> <<>>, a |-> <<>>]
JStr(str) == [t |-> "str", s |-> str, a |-> <<>>]
JNum(digits) == [t |-> "num", s |-> digits, a |-> <<>>]
JArr(xs) == [t |-> "arr", s |-> <<>>, a |-> xs]
JObj(pairs) == [t |-> "obj", s |-> <<>>, a |-> pairs]

\* dict: key in d
DictHas(d, k) == \E i \in 1..Len(d) : d[i].k = k

\* dict.get(key) whatever default the caller passes: None for a missing key.
DictGet_none(d, k, default) ==
    IF DictHas(d, k) THEN d[CHOOSE i \in 1..Len(d) : d[i].k = k].v ELSE JNull

\* dict.get(key, default)
DictGet(d, k, default) ==
    IF DictHas(d, k) THEN d[CHOOSE i \in 1..Len(d) : d[i].k = k].v ELSE default

\* d[key] = value: an existing key keeps its place, a new one goes last.
DictSet(d, k, val) ==
    IF DictHas(d, k)
    THEN [i \in 1..Len(d) |-> IF d[i].k = k THEN [k |-> k, v |-> val] ELSE d[i]]
    ELSE Append(d, [k |-> k, v |-> val])

\* The keys of a dict, in insertion order.
DictKeys(d) == [i \in 1..Len(d) |-> d[i].k]

\* dict equality of Python: the same keys with the same values, in any order.
DictEq(d, e) ==
    /\ Len(d) = Len(e)
    /\ \A i \in 1..Len(d) : DictHas(e, d[i].k) /\ DictGet(e, d[i].k, JNull) = d[i].v

RECURSIVE StrLess(_, _)
\* str < str of Python: lexicographic by code point.
StrLess(a, b) ==
    IF b = <<>> THEN FALSE
    ELSE IF a = <<>> THEN TRUE
    ELSE IF Head(a) # Head(b) THEN Head(a) < Head(b)
    ELSE StrLess(Tail(a), Tail(b))

\* dict.items() as they come, in insertion order.
SortItems_unsorted(d) == d

RECURSIVE SortItems(_)
\* sorted(dict.items()): the pairs by ascending key (the keys are distinct).
SortItems(d) ==
    IF d = <<>> THEN <<>>
    ELSE LET m == CHOOSE i \in 1..Len(d) : \A j \in 1..Len(d) : ~StrLess(d[j].k, d[i].k)
             rest == [i \in 1..(Len(d) - 1) |-> IF i < m THEN d[i] ELSE d[i + 1]]
         IN  <<d[m]>> \o SortItems(rest)

(***************************************************************************)
(* json.dumps(value, ensure_ascii=False, sort_keys=True): the text, as     *)
(* code points.  Separators are ", " and ": ".  Of the escapes, those of   *)
(* the quote, the backslash and the C0 controls \b \t \n \f \r are         *)
(* modelled; the other C0 controls (\u00XX) are outside the alphabet.      *)
(***************************************************************************)
json_escape_char(c) ==
    CASE c = 34 -> <<92, 34>>
      [] c = 92 -> <<92, 92>>
      [] c = 8  -> <<92, 98>>
      [] c = 9  -> <<92, 116>>
      [] c = 10 -> <<92, 110>>
      [] c = 12 -> <<92, 102>>
      [] c = 13 -> <<92, 114>>
      [] OTHER  -> <<c>>

json_escape(s) == Concat([i \in 1..Len(s) |-> json_escape_char(s[i])])

json_quote(s) == <<34>> \o json_escape(s) \o <<34>>

RECURSIVE json_dumps(_)
RECURSIVE json_dumps_items(_)
RECURSIVE json_dumps_members(_)
\* The items of an array, joined by ", ".
json_dumps_items(xs) ==
    IF xs = <<>> THEN <<>>
    ELSE IF Len(xs) = 1 THEN json_dumps(xs[1])
    ELSE json_dumps(xs[1]) \o <<44, 32>> \o json_dumps_items(Tail(xs))

\* The members of an object, in the order given, joined by ", ".
json_dumps_members(ps) ==
    IF ps = <<>> THEN <<>>
    ELSE LET one == json_quote(ps[1].k) \o <<58, 32>> \o json_dumps(ps[1].v)
         IN  IF Len(ps) = 1 THEN one ELSE one \o <<44, 32>> \o json_dumps_members(Tail(ps))

json_dumps(x) ==
    CASE x.t = "null"  -> <<110, 117, 108, 108>>
      [] x.t = "true"  -> <<116, 114, 117, 101>>
      [] x.t = "false" -> <<102, 97, 108, 115, 101>>
      [] x.t = "num"   -> x.s
      [] x.t = "str"   -> json_quote(x.s)
      [] x.t = "arr"   -> <<91>> \o json_dumps_items(x.a) \o <<93>>
      [] x.t = "obj"   -> <<123>> \o json_dumps_members(SortItems(x.a)) \o <<125>>

(***************************************************************************)
(* json.loads(text): the scanner of Python's json.decoder over the code    *)
(* points of the text.  A result is [ok, val, pos]: pos the 1-based index  *)
(* after the value.  Modelled: objects, arrays, strings (strict: no raw    *)
(* control character; the escapes \" \\ \/ \b \f \n \r \t), null, true,    *)
(* false and integers.  Outside the alphabet: \uXXXX escapes, fractions,   *)
(* exponents, NaN and Infinity.                                            *)
(***************************************************************************)
JFail == [ok |-> FALSE, val |-> JNull, pos |-> 0]
JOk(val, pos) == [ok |-> TRUE, val |-> val, pos |-> pos]

RECURSIVE json_skip_ws(_, _)
\* WHITESPACE.match(s, i).end()
json_skip_ws(s, i) ==
    IF i <= Len(s) /\ s[i] \in {32, 9, 10, 13} THEN json_skip_ws(s, i + 1) ELSE i

json_unescape(c) ==
    CASE c = 34  -> 34
      [] c = 92  -> 92
      [] c = 47  -> 47
      [] c = 98  -> 8
      [] c = 102 -> 12
      [] c = 110 -> 10
      [] c = 114 -> 13
      [] c = 116 -> 9
      [] OTHER   -> -1

RECURSIVE json_escaped(_, _, _)
\* Whether the character at p stands behind a backslash that introduces an
\* escape, in the string whose first character is at lo.
json_escaped(s, lo, p) == p > lo /\ s[p - 1] = 92 /\ ~json_escaped(s, lo, p - 1)

\* py_scanstring from position i, the one after the opening quote: the
\* string ends at the first quote that no backslash escapes.
json_scan_string(s, i) ==
    LET closes == {p \in i..Len(s) : s[p] = 34 /\ ~json_escaped(s, i, p)}
    IN  IF closes = {} THEN JFail
        ELSE LET end == CHOOSE p \in closes : \A q \in closes : p <= q
                 intro(p) == s[p] = 92 /\ ~json_escaped(s, i, p)
                 keep(p) == ~intro(p + i - 1)
                 kept == SelectSeq(Indices(end - i), keep)
                 char(p) == IF json_escaped(s, i, p) THEN json_unescape(s[p]) ELSE s[p]
             IN  IF \E p \in i..(end - 1) :
                        s[p] < 32 \/ (json_escaped(s, i, p) /\ json_unescape(s[p]) < 0)
                 THEN JFail
                 ELSE JOk(JStr([k \in 1..Len(kept) |-> char(kept[k] + i - 1)]), end + 1)

IsDigit(c) == c >= 48 /\ c <= 57

RECURSIVE json_scan_digits(_, _)
\* The index after the run of digits starting at i.
json_scan_digits(s, i) ==
    IF i <= Len(s) /\ IsDigit(s[i]) THEN json_scan_digits(s, i + 1) ELSE i

\* NUMBER_RE: -?(0|[1-9][0-9]*), the integer part of the number syntax.
json_scan_number(s, i) ==
    LET d == IF s[i] = 45 THEN i + 1 ELSE i
        e == IF d <= Len(s) /\ s[d] = 48 THEN d + 1 ELSE json_scan_digits(s, d)
    IN  IF e = d THEN JFail ELSE JOk(JNum(Slice(s, i - 1, e - 1)), e)

RECURSIVE json_scan_once(_, _)
RECURSIVE json_parse_members(_, _, _)
RECURSIVE json_parse_items(_, _, _)
\* JSONObject after a key's opening position: "key" : value, then , or }.
json_parse_members(s, i, acc) ==
    IF i > Len(s) \/ s[i] # 34 THEN JFail
    ELSE LET key == json_scan_string(s, i + 1)
         IN  IF ~key.ok THEN JFail
             ELSE LET colon == json_skip_ws(s, key.pos)
                  IN  IF colon > Len(s) \/ s[colon] # 58 THEN JFail
                      ELSE LET val == json_scan_once(s, json_skip_ws(s, colon + 1))
                           IN  IF ~val.ok THEN JFail
                               ELSE LET e == json_skip_ws(s, val.pos)
                                        pairs == DictSet(acc, key.val.s, val.val)
                                    IN  IF e > Len(s) THEN JFail
                                        ELSE IF s[e] = 125 THEN JOk(JObj(pairs), e + 1)
                                        ELSE IF s[e] = 44
                                             THEN json_parse_members(s, json_skip_ws(s, e + 1), pairs)
                                        ELSE JFail

\* JSONArray at the position of an item: value, then , or ].
json_parse_items(s, i, acc) ==
    LET val == json_scan_once(s, i)
    IN  IF ~val.ok THEN JFail
        ELSE LET e == json_skip_ws(s, val.pos)
                 items == Append(acc, val.val)
             IN  IF e > Len(s) THEN JFail
                 ELSE IF s[e] = 93 THEN JOk(JArr(items), e + 1)
                 ELSE IF s[e] = 44 THEN json_parse_items(s, json_skip_ws(s, e + 1), items)
                 ELSE JFail

\* scan_once(s, i): the value that starts exactly at i.
json_scan_once(s, i) ==
    IF i > Len(s) THEN JFail
    ELSE IF s[i] = 34 THEN json_scan_string(s, i + 1)
    ELSE IF s[i] = 123
         THEN LET j == json_skip_ws(s, i + 1)
              IN  IF j <= Len(s) /\ s[j] = 125 THEN JOk(JObj(<<>>), j + 1)
                  ELSE json_parse_members(s, j, <<>>)
    ELSE IF s[i] = 91
         THEN LET j == json_skip_ws(s, i + 1)
              IN  IF j <= Len(s) /\ s[j] = 93 THEN JOk(JArr(<<>>), j + 1)
                  ELSE json_parse_items(s, j, <<>>)
    ELSE IF Slice(s, i - 1, i + 3) = <<110, 117, 108, 108>> THEN JOk(JNull, i + 4)
    ELSE IF Slice(s, i - 1, i + 3) = <<116, 114, 117, 101>> THEN JOk(JTrue, i + 4)
    ELSE IF Slice(s, i - 1, i + 4) = <<102, 97, 108, 115, 101>> THEN JOk(JFalse, i + 5)
    ELSE IF s[i] = 45 \/ IsDigit(s[i]) THEN json_scan_number(s, i)
    ELSE JFail

\* A lenient json.loads: text that does not parse is read as the empty object.
json_loads_lenient(s) ==
    LET r == json_scan_once(s, json_skip_ws(s, 1))
    IN  IF r.ok /\ json_skip_ws(s, r.pos) = Len(s) + 1 THEN r ELSE JOk(JObj(<<>>), Len(s) + 1)

\* json.loads(text): one value between optional whitespace, and nothing
\* after it; not ok stands for json.JSONDecodeError.
json_loads(s) ==
    LET r == json_scan_once(s, json_skip_ws(s, 1))
    IN  IF r.ok /\ json_skip_ws(s, r.pos) = Len(s) + 1 THEN r ELSE JFail

(***************************************************************************)
(* IEEE-754 binary64 arithmetic on non-negative values, as far as the      *)
(* timestamp conversions use it.  A float is [m, e]: m the significand's   *)
(* bits, most significant first, with no leading zero and at most          *)
(* MantissaBits of them (<<>> for 0.0), and e the exponent of its last     *)
(* bit: the value is m * 2^e.  Every operation rounds to nearest, ties to  *)
(* even, as the hardware does.  Python's ints are unbounded and TLC's are  *)
(* 32 bits wide, so the significand is kept as a sequence of bits and the  *)
(* arithmetic goes digit by digit.                                         *)
(***************************************************************************)
MantissaBits == 53
\* The arithmetic below works on digits of 10 bits (base 1024), so that
\* every intermediate product stays within 31 bits.

\* 2^n for 0 <= n <= 30.
RECURSIVE Pow2(_)
Pow2(n) == IF n = 0 THEN 1 ELSE 2 * Pow2(n - 1)

\* The first index of a 1 in bs, or 0.
FirstOne(bs) ==
    IF \A i \in 1..Len(bs) : bs[i] = 0 THEN 0
    ELSE CHOOSE i \in 1..Len(bs) : bs[i] = 1 /\ \A j \in 1..(i - 1) : bs[j] = 0

StripZeros(bs) == IF FirstOne(bs) = 0 THEN <<>> ELSE SubSeq(bs, FirstOne(bs), Len(bs))

\* The w low-order binary digits of n, most significant first.
FixedBits(n, w) == [i \in 1..w |-> (n \div Pow2(w - i)) % 2]

\* The binary digits of 0 <= n < 2^31, most significant first (<<>> for 0).
IntBits(n) == StripZeros(FixedBits(n, 31))

RECURSIVE BitsToInt(_)
\* The value of at most 31 bits, by halves.
BitsToInt(bs) ==
    IF bs = <<>> THEN 0
    ELSE IF Len(bs) = 1 THEN bs[1]
    ELSE LET h == Len(bs) \div 2
         IN  BitsToInt(SubSeq(bs, 1, h)) * Pow2(Len(bs) - h) + BitsToInt(SubSeq(bs, h + 1, Len(bs)))

\* bs + 1: the last 0 becomes 1 and the 1s after it 0.
BitsInc(bs) ==
    IF \A i \in 1..Len(bs) : bs[i] = 1 THEN <<1>> \o [i \in 1..Len(bs) |-> 0]
    ELSE LET z == CHOOSE i \in 1..Len(bs) : bs[i] = 0 /\ \A j \in (i + 1)..Len(bs) : bs[j] = 1
         IN  [i \in 1..Len(bs) |-> IF i < z THEN bs[i] ELSE IF i = z THEN 1 ELSE 0]

\* m * 2^e with m of MantissaBits bits, rounded up by one unit or not; a
\* carry out of the top bit renormalises.
FloatBump(m, e, up) ==
    LET m1 == IF up THEN BitsInc(m) ELSE m
    IN  IF Len(m1) > MantissaBits
        THEN [m |-> SubSeq(m1, 1, MantissaBits), e |-> e + 1]
        ELSE [m |-> m1, e |-> e]

\* The float nearest to (bs + x) * 2^e for bs without leading zeros and
\* 0 <= x < 1, where inexact says whether x > 0.
FloatRound(bs, e, inexact) ==
    IF Len(bs) <= MantissaBits THEN [m |-> bs, e |-> e]
    ELSE LET keep == SubSeq(bs, 1, MantissaBits)
             half == bs[MantissaBits + 1] = 1
             sticky == inexact \/ \E i \in (MantissaBits + 2)..Len(bs) : bs[i] = 1
         IN  FloatBump(keep, e + (Len(bs) - MantissaBits),
                       half /\ (sticky \/ keep[MantissaBits] = 1))

\* Eight digits of the quotient after the point are 80 bits: 20 leading
\* zeros at most (the dividends are >= 1 and the divisors <= 10^6), then
\* MantissaBits and a guard bit.
RECURSIVE FloatDivLimbs(_, _, _)
\* Long division in base 1024: n more digits of r / b for r < b, with
\* the remainder after them.
FloatDivLimbs(r, b, n) ==
    IF n = 0 THEN [digits |-> <<>>, r |-> r]
    ELSE LET rest == FloatDivLimbs((r * 1024) % b, b, n - 1)
         IN  [digits |-> <<(r * 1024) \div b>> \o rest.digits, r |-> rest.r]

\* The bits of a sequence of base-1024 digits.
LimbsToBits(ds) ==
    [i \in 1..(10 * Len(ds)) |->
        (ds[((i - 1) \div 10) + 1] \div Pow2(10 - 1 - ((i - 1) % 10))) % 2]

\* a / b of Python for ints 0 <= a < 2^31 and 0 < b <= 10^6: the correctly
\* rounded quotient.
FloatDiv(a, b) ==
    LET d == FloatDivLimbs(a % b, b, 8)
        bits == StripZeros(IntBits(a \div b) \o LimbsToBits(d.digits))
    IN  IF a = 0 THEN [m |-> <<>>, e |-> 0]
        ELSE FloatRound(bits, -80, d.r # 0)

\* The base-1024 digits of a bit sequence, least significant first.
BitsToLimbs(bs) ==
    LET n == (Len(bs) + 10 - 1) \div 10
        padded == [i \in 1..(n * 10 - Len(bs)) |-> 0] \o bs
    IN  [j \in 1..n |-> BitsToInt(SubSeq(padded, (n - j) * 10 + 1, (n - j + 1) * 10))]

RECURSIVE FloatMulLimbs(_, _, _)
\* The digits, most significant first, of ls * k + carry, where ls holds
\* the digits least significant first and k <= 1024.
FloatMulLimbs(ls, k, carry) ==
    IF ls = <<>> THEN <<carry>>
    ELSE LET t == Head(ls) * k + carry
         IN  Append(FloatMulLimbs(Tail(ls), k, t \div 1024), t % 1024)

\* The bits of bs * k, exactly, for 0 < k <= 1024.
BitsMul(bs, k) == StripZeros(LimbsToBits(FloatMulLimbs(BitsToLimbs(bs), k, 0)))

\* x * 1000 for a float x.
FloatMulThousand(x) ==
    IF x.m = <<>> THEN x ELSE FloatRound(BitsMul(x.m, 1000), x.e, FALSE)

\* x * 10**6 for a float x (the product is rounded once).
FloatMulMillion(x) ==
    IF x.m = <<>> THEN x ELSE FloatRound(BitsMul(BitsMul(x.m, 1000), 1000), x.e, FALSE)

\* int(x): the integer part.
FloatTrunc(x) ==
    IF x.e >= 0 THEN BitsToInt(x.m \o [i \in 1..x.e |-> 0])
    ELSE IF Len(x.m) + x.e <= 0 THEN 0
    ELSE BitsToInt(SubSeq(x.m, 1, Len(x.m) + x.e))

\* The bits of x after the binary point, all -e of them (<<>> when e >= 0).
FloatFracBits(x) ==
    IF x.e >= 0 THEN <<>>
    ELSE IF Len(x.m) + x.e <= 0 THEN [i \in 1..(-x.e - Len(x.m)) |-> 0] \o x.m
    ELSE SubSeq(x.m, Len(x.m) + x.e + 1, Len(x.m))

\* modf(x)'s fractional part, which is exact.
FloatFrac(x) == [m |-> StripZeros(FloatFracBits(x)), e |-> IF x.e >= 0 THEN 0 ELSE x.e]

\* _PyTime_RoundHalfEven(x) as an int: the nearest integer, ties to even.
FloatRoundHalfEven(x) ==
    LET fb == FloatFracBits(x)
        ip == FloatTrunc(x)
        half == fb # <<>> /\ fb[1] = 1
        sticky == \E i \in 2..Len(fb) : fb[i] = 1
    IN  IF half /\ (sticky \/ ip % 2 = 1) THEN ip + 1 ELSE ip

(***************************************************************************)
(* datetime.  A datetime is [us, tzinfo]: us the microseconds from the     *)
(* epoch to the instant read in UTC, tzinfo "utc" or "None" (naive).       *)
(***************************************************************************)
MicrosPerSecond == 1000000
MillisPerSecond == 1000

\* _ensure_timezone(dt): a naive datetime is taken as UTC.
ensure_timezone(dt) == [us |-> dt.us, tzinfo |-> "utc"]

\* int(dt.timestamp() * 1000) for an aware dt: (dt - EPOCH).total_seconds()
\* is microseconds / 10**6 in floating point.
timestamp_ms(dt) == FloatTrunc(FloatMulThousand(FloatDiv(dt.us, MicrosPerSecond)))

\* datetime.fromtimestamp(created_ms / 1000, tz=timezone.utc): the seconds
\* split by modf, the fraction scaled to microseconds and rounded half-even.
fromtimestamp_ms(created_ms) ==
    LET t == FloatDiv(created_ms, MillisPerSecond)
        frac == FloatRoundHalfEven(FloatMulMillion(FloatFrac(t)))
    IN  [us |-> FloatTrunc(t) * MicrosPerSecond + frac, tzinfo |-> "utc"]

\* Two decimal digits, as text.
TwoDigits(n) == <<48 + ((n \div 10) % 10), 48 + (n % 10)>>

\* datetime.isoformat() of an aware UTC datetime: the fraction is written
\* only when it is not zero.  The dates of the model lie on 1970-01-01.
isoformat(dt) ==
    LET sec == dt.us \div MicrosPerSecond
        frac == dt.us % MicrosPerSecond
        fraction == IF frac = 0 THEN <<>>
                    ELSE <<46>> \o TwoDigits(frac \div 10000) \o TwoDigits(frac \div 100)
                              \o TwoDigits(frac)
    IN  <<49, 57, 55, 48, 45, 48, 49, 45, 48, 49, 84>>      \* 1970-01-01T
        \o TwoDigits(sec \div 3600) \o <<58>> \o TwoDigits((sec \div 60) % 60) \o <<58>>
        \o TwoDigits(sec % 60) \o fraction \o <<43, 48, 48, 58, 48, 48>>   \* +00:00

\* datetime.fromisoformat(text), on the texts isoformat writes: [ok, dt].
\* Not ok stands for ValueError("Invalid isoformat string").  (Python reads
\* other ISO 8601 forms as well; the inputs of the model hold none.)
fromisoformat(text) ==
    LET n == Len(text)
        digit(i) == text[i] - 48
        num2(i) == digit(i) * 10 + digit(i + 1)
        digits == {12, 13, 15, 16, 18, 19} \cup (IF n = 32 THEN 21..26 ELSE {})
        frac == IF n = 32
                THEN num2(21) * 10000 + num2(23) * 100 + num2(25)
                ELSE 0
        shaped == /\ n \in {25, 32}
                  /\ SubSeq(text, 1, 11) = <<49, 57, 55, 48, 45, 48, 49, 45, 48, 49, 84>>
                  /\ SubSeq(text, n - 5, n) = <<43, 48, 48, 58, 48, 48>>
                  /\ text[14] = 58 /\ text[17] = 58
                  /\ (n = 32 => text[20] = 46)
                  /\ \A i \in digits : IsDigit(text[i])
                  /\ num2(12) < 24 /\ num2(15) < 60 /\ num2(18) < 60
    IN  IF shaped
        THEN [ok |-> TRUE,
              dt |-> [us |-> ((num2(12) * 60 + num2(15)) * 60 + num2(18)) * MicrosPerSecond + frac,
                      tzinfo |-> "utc"]]
        ELSE [ok |-> FALSE, dt |-> [us |-> 0, tzinfo |-> "None"]]

(***************************************************************************)
(* Python's view of a decoded JSON value.                                  *)
(***************************************************************************)
\* bool(x)
Truthy(x) ==
    CASE x.t \in {"null", "false"} -> FALSE
      [] x.t = "true" -> TRUE
      [] x.t = "num" -> x.s \notin {<<48>>, <<45, 48>>}
      [] x.t = "str" -> x.s # <<>>
      [] x.t \in {"arr", "obj"} -> x.a # <<>>

\* list(x): [err, val].  A str gives its characters, a dict its keys.
PyList(x) ==
    CASE x.t = "arr" -> [err |-> NoError, val |-> x]
      [] x.t = "str" -> [err |-> NoError, val |-> JArr([i \in 1..Len(x.s) |-> JStr(<<x.s[i]>>)])]
      [] x.t = "obj" -> [err |-> NoError, val |-> JArr([i \in 1..Len(x.a) |-> JStr(x.a[i].k)])]
      [] OTHER -> [err |-> "TypeError: object is not iterable", val |-> JNull]

\* dict(x): [err, val].  A dict is copied; an empty list or str gives {}.
\* (A non-empty sequence must hold key/value pairs; the model holds none.)
PyDict(x) ==
    CASE x.t = "obj" -> [err |-> NoError, val |-> x]
      [] x.t \in {"arr", "str"} /\ ~Truthy(x) -> [err |-> NoError, val |-> JObj(<<>>)]
      [] x.t \in {"arr", "str"} /\ Truthy(x) ->
            [err |-> "ValueError: dictionary update sequence element", val |-> JNull]
      [] OTHER -> [err |-> "TypeError: object is not iterable", val |-> JNull]

\* The metadata keys.
K_title == <<116, 105, 116, 108, 101>>
K_summary == <<115, 117, 109, 109, 97, 114, 121>>
K_author == <<97, 117, 116, 104, 111, 114>>
K_created_at == <<99, 114, 101, 97, 116, 101, 100, 95, 97, 116>>
K_tags == <<116, 97, 103, 115>>
K_revision == <<114, 101, 118, 105, 115, 105, 111, 110>>
K_extra == <<101, 120, 116, 114, 97>>
K_project == <<112, 114, 111, 106, 101, 99, 116>>
K_branch == <<98, 114, 97, 110, 99, 104>>

Pair(key, val) == [k |-> key, v |-> val]

\* The created_at a from_dict computes: [err, dt].
created_at_from(payload, now) ==
    LET created_raw == DictGet(payload.a, K_created_at, JNull)
    IN  IF ~Truthy(created_raw) THEN [err |-> NoError, dt |-> now]
        ELSE IF created_raw.t # "str"
             THEN [err |-> "TypeError: fromisoformat: argument must be str", dt |-> now]
        ELSE IF ~fromisoformat(created_raw.s).ok
             THEN [err |-> "ValueError: Invalid isoformat string", dt |-> now]
        ELSE [err |-> NoError, dt |-> ensure_timezone(fromisoformat(created_raw.s).dt)]

(***************************************************************************)
(* tablet.py                                                               *)
(***************************************************************************)
TABLET_MAGIC == <<65, 85, 82, 65, 84, 65, 66, 49>>          \* b"AURATAB1"
\* The version a later generation of the format would write.
TABLET_VERSION_next == 1 + 1
TABLET_VERSION == 1

\* _encode_string with the payload padded with zero bytes to a multiple of
\* four.
encode_string_aligned(value) ==
    LET data == utf8_encode(value)
    IN  pack(Len(data), 4) \o data \o [i \in 1..((4 - (Len(data) % 4)) % 4) |-> 0]

\* _encode_string(value).  The guard on lengths above 0xFFFFFFFF cannot
\* fire on a string TLC can hold.
encode_string(value) ==
    LET data == utf8_encode(value)
    IN  pack(Len(data), 4) \o data

\* _decode_string without the check that the payload ends inside the
\* buffer: the slice is then cut at the buffer's end, as Python cuts it.
decode_string_unchecked(buffer, cursor) ==
    IF cursor + 4 > Len(buffer)
    THEN [err |-> "ValueError: Unexpected EOF while reading string length",
          data |-> <<>>, cursor |-> cursor]
    ELSE LET length == unpack_from(buffer, cursor, 4)
             end == cursor + 4 + length
             text == utf8_decode(Slice(buffer, cursor + 4, end))
         IN  IF ~text.ok
             THEN [err |-> "UnicodeDecodeError: invalid utf-8", data |-> <<>>,
                   cursor |-> cursor + 4]
             ELSE [err |-> NoError, data |-> text.s, cursor |-> end]

\* _decode_string(buffer, cursor): [err, data, cursor].
decode_string(buffer, cursor) ==
    IF cursor + 4 > Len(buffer)
    THEN [err |-> "ValueError: Unexpected EOF while reading string length",
          data |-> <<>>, cursor |-> cursor]
    ELSE LET length == unpack_from(buffer, cursor, 4)
             end == cursor + 4 + length
             text == utf8_decode(Slice(buffer, cursor + 4, end))
         IN  IF end > Len(buffer)
             THEN [err |-> "ValueError: Unexpected EOF while reading string payload",
                   data |-> <<>>, cursor |-> cursor + 4]
             ELSE IF ~text.ok
                  THEN [err |-> "UnicodeDecodeError: invalid utf-8", data |-> <<>>,
                        cursor |-> cursor + 4]
             ELSE [err |-> NoError, data |-> text.s, cursor |-> end]

TabletEntry(path, diff, notes) == [path |-> path, diff |-> diff, notes |-> notes]

\* TabletMetadata.to_dict()
TabletMetadata_to_dict(m) ==
    JObj(<<Pair(K_title, m.title),
           Pair(K_summary, m.summary),
           Pair(K_author, m.author),
           Pair(K_created_at, JStr(isoformat(ensure_timezone(m.created_at)))),
           Pair(K_tags, PyList(m.tags).val),
           Pair(K_revision, m.revision),
           Pair(K_extra, m.extra)>>)

\* TabletMetadata.from_dict taking the whole payload for the extension map.
TabletMetadata_from_dict_all_keys(payload, now) ==
    LET d == payload.a
        created == created_at_from(payload, now)
        tags == PyList(DictGet(d, K_tags, JArr(<<>>)))
        extra == PyDict(payload)
        err == IF payload.t # "obj" THEN "AttributeError: object has no attribute 'get'"
               ELSE IF created.err # NoError THEN created.err
               ELSE IF tags.err # NoError THEN tags.err
               ELSE extra.err
    IN  [err |-> err,
         metadata |-> [title |-> DictGet(d, K_title, JStr(<<85, 110, 116, 105, 116, 108, 101,
                                                           100, 32, 84, 97, 98, 108, 101, 116>>)),
                       summary |-> DictGet(d, K_summary, JStr(<<>>)),
                       author |-> DictGet(d, K_author, JNull),
                       created_at |-> created.dt,
                       tags |-> tags.val,
                       revision |-> DictGet(d, K_revision, JNull),
                       extra |-> extra.val]]

\* TabletMetadata.from_dict(payload): [err, metadata]; now is what
\* datetime.now(timezone.utc) returns.
TabletMetadata_from_dict(payload, now) ==
    LET d == payload.a
        created == created_at_from(payload, now)
        tags == PyList(DictGet(d, K_tags, JArr(<<>>)))
        extra == PyDict(DictGet(d, K_extra, JObj(<<>>)))
        err == IF payload.t # "obj" THEN "AttributeError: object has no attribute 'get'"
               ELSE IF created.err # NoError THEN created.err
               ELSE IF tags.err # NoError THEN tags.err
               ELSE extra.err
    IN  [err |-> err,
         metadata |-> [title |-> DictGet(d, K_title, JStr(<<85, 110, 116, 105, 116, 108, 101,
                                                           100, 32, 84, 97, 98, 108, 101, 116>>)),
                       summary |-> DictGet(d, K_summary, JStr(<<>>)),
                       author |-> DictGet(d, K_author, JNull),
                       created_at |-> created.dt,
                       tags |-> tags.val,
                       revision |-> DictGet(d, K_revision, JNull),
                       extra |-> extra.val]]

\* Tablet.to_bytes() writing the entry count only when there are entries.
Tablet_to_bytes_no_count(self) ==
    LET created_at == timestamp_ms(ensure_timezone(self.metadata.created_at))
        metadata_blob == json_dumps(TabletMetadata_to_dict(self.metadata))
        entry(i) == encode_string(self.entries[i].path) \o encode_string(self.entries[i].diff)
                    \o encode_string(self.entries[i].notes)
    IN  TABLET_MAGIC \o pack(TABLET_VERSION, 2) \o pack(created_at, 8)
        \o encode_string(metadata_blob)
        \o (IF self.entries = <<>> THEN <<>> ELSE pack(Len(self.entries), 4))
        \o Concat([i \in 1..Len(self.entries) |-> entry(i)])

\* Tablet.to_bytes()
Tablet_to_bytes(self) ==
    LET created_at == timestamp_ms(ensure_timezone(self.metadata.created_at))
        metadata_blob == json_dumps(TabletMetadata_to_dict(self.metadata))
        entry(i) == encode_string(self.entries[i].path)
                    \o encode_string(self.entries[i].diff)
                    \o encode_string(self.entries[i].notes)
    IN  TABLET_MAGIC
        \o pack(TABLET_VERSION, 2)
        \o pack(created_at, 8)
        \o encode_string(metadata_blob)
        \o pack(Len(self.entries), 4)
        \o Concat([i \in 1..Len(self.entries) |-> entry(i)])

\* metadata.created_at left as from_dict made it.
set_created_at_skipped(metadata, created_at) == metadata

\* metadata.created_at = created_at
set_created_at(metadata, created_at) == [metadata EXCEPT !.created_at = created_at]

\* Python's None where a record is expected, and a raise out of from_bytes.
None == <<>>
\* An error that is noted and does not stop the call: it returns what it has.
Raise_and_return(f, exc) == [f EXCEPT !.pc = "returned", !.err = exc]

Raise(f, exc) == [f EXCEPT !.pc = "raised", !.err = exc]

\* A callee's exception caught and raised again as a format error that
\* carries it: raise ValueError("Corrupt tablet: unreadable string") from exc
Propagate_wrapped(f, exc) ==
    [f EXCEPT !.pc = "raised", !.err = "ValueError: Corrupt tablet: unreadable string",
              !.cause = exc]

\* An exception of _decode_string that from_bytes does not catch: it leaves
\* the call as it is.
Propagate(f, exc) == [f EXCEPT !.pc = "raised", !.err = exc]

\* raise exc from cause: the exception leaves with __cause__ set.
RaiseFrom(f, exc, cause) == [f EXCEPT !.pc = "raised", !.err = exc, !.cause = cause]

\* The locals of Tablet.from_bytes as the call starts.
Tablet_from_bytes_enter ==
    [cls |-> "Tablet", pc |-> "magic", cursor |-> 0, created_at |-> None, metadata |-> None,
     entry_count |-> 0, entries |-> <<>>, err |-> NoError, cause |-> NoError]

\* Tablet.from_bytes(payload), one step of it: the locals after the block
\* of the source that f.pc names.  The blocks are the magic check, the
\* version check, the timestamp, the metadata, the entry count, and one
\* round of the entry loop (or the return when the loop is over).
Tablet_from_bytes_step(f, payload, now) ==
    CASE f.pc = "magic" ->
            IF Len(payload) < Len(TABLET_MAGIC)
            THEN Raise(f, "ValueError: Payload too small to be a valid tablet")
            ELSE IF Slice(payload, f.cursor, f.cursor + Len(TABLET_MAGIC)) # TABLET_MAGIC
                 THEN Raise([f EXCEPT !.cursor = @ + Len(TABLET_MAGIC)],
                            "ValueError: Invalid tablet magic header")
            ELSE [f EXCEPT !.cursor = @ + Len(TABLET_MAGIC), !.pc = "version"]
      [] f.pc = "version" ->
            IF f.cursor + 2 > Len(payload)
            THEN Raise(f, "ValueError: Corrupt tablet: missing version")
            ELSE IF unpack_from(payload, f.cursor, 2) # TABLET_VERSION
                 THEN Raise([f EXCEPT !.cursor = @ + 2], "ValueError: Unsupported tablet version")
            ELSE [f EXCEPT !.cursor = @ + 2, !.pc = "timestamp"]
      [] f.pc = "timestamp" ->
            IF f.cursor + 8 > Len(payload)
            THEN Raise(f, "ValueError: Corrupt tablet: missing timestamp")
            ELSE [f EXCEPT !.cursor = @ + 8, !.pc = "metadata",
                           !.created_at = fromtimestamp_ms(unpack_from(payload, f.cursor, 8))]
      [] f.pc = "metadata" ->
            LET str == decode_string(payload, f.cursor)
                json == json_loads(str.data)
                meta == TabletMetadata_from_dict(json.val, now)
            IN  IF str.err # NoError THEN Propagate([f EXCEPT !.cursor = str.cursor], str.err)
                ELSE IF ~json.ok
                     THEN Raise([f EXCEPT !.cursor = str.cursor], "JSONDecodeError: invalid JSON")
                ELSE IF meta.err # NoError THEN Raise([f EXCEPT !.cursor = str.cursor], meta.err)
                ELSE [f EXCEPT !.cursor = str.cursor, !.pc = "entry_count",
                               !.metadata = set_created_at(meta.metadata, f.created_at)]
      [] f.pc = "entry_count" ->
            IF f.cursor + 4 > Len(payload)
            THEN Raise(f, "ValueError: Corrupt tablet: missing entry count")
            ELSE [f EXCEPT !.cursor = @ + 4, !.pc = "entries",
                           !.entry_count = unpack_from(payload, f.cursor, 4)]
      [] f.pc = "entries" ->
            IF Len(f.entries) >= f.entry_count THEN [f EXCEPT !.pc = "returned"]
            ELSE LET path == decode_string(payload, f.cursor)
                     diff == decode_string(payload, path.cursor)
                     notes == decode_string(payload, diff.cursor)
                 IN  IF path.err # NoError THEN Propagate([f EXCEPT !.cursor = path.cursor], path.err)
                     ELSE IF diff.err # NoError
                          THEN Propagate([f EXCEPT !.cursor = diff.cursor], diff.err)
                     ELSE IF notes.err # NoError
                          THEN Propagate([f EXCEPT !.cursor = notes.cursor], notes.err)
                     ELSE [f EXCEPT !.cursor = notes.cursor,
                                    !.entries = Append(@, TabletEntry(path.data, diff.data,
                                                                      notes.data))]

RECURSIVE Tablet_from_bytes_run(_, _, _)
\* The blocks of Tablet.from_bytes run from f until it returns or raises.
Tablet_from_bytes_run(f, payload, now) ==
    IF f.pc \in {"returned", "raised"} THEN f
    ELSE Tablet_from_bytes_run(Tablet_from_bytes_step(f, payload, now), payload, now)

\* Tablet.from_bytes refusing a buffer that goes on behind the last entry.
Tablet_from_bytes_exact(payload, now) ==
    LET f == Tablet_from_bytes_run(Tablet_from_bytes_enter, payload, now)
    IN  IF f.pc = "returned" /\ f.cursor < Len(payload)
        THEN Raise(f, "ValueError: Corrupt tablet: trailing bytes")
        ELSE f

\* Tablet.from_bytes(payload): the locals as the call ends.
Tablet_from_bytes(payload, now) == Tablet_from_bytes_run(Tablet_from_bytes_enter, payload, now)

\* What a call that ended with the locals f hands to its caller: the Tablet
\* of the return statement, nothing on a raise.
Tablet_from_bytes_result(f) ==
    IF f.pc = "returned" THEN [cls |-> "Tablet", metadata |-> f.metadata, entries |-> f.entries]
    ELSE None

(***************************************************************************)
(* medicine_cabinet/context_capsule.py                                     *)
(***************************************************************************)
\* Both formats under the magic of the tablet.
CAPSULE_MAGIC_shared == TABLET_MAGIC

CAPSULE_MAGIC == <<65, 85, 82, 65, 67, 84, 88, 49>>         \* b"AURACTX1"
CAPSULE_VERSION == 1

\* SectionKind
TEXT == 1
JSON == 2
BINARY == 3
\* A kind byte of any value passed through.
SectionKind_any == 0..255

SectionKind == {TEXT, JSON, BINARY}

\* _encode_string with the length of the text in place of the length of
\* its UTF-8 bytes.
capsule_encode_string_chars(value) == pack(Len(value), 4) \o utf8_encode(value)

\* _encode_string(value) of the capsule module.
capsule_encode_string(value) ==
    LET data == utf8_encode(value)
    IN  pack(Len(data), 4) \o data

\* The capsule's _decode_string without the check that the payload ends
\* inside the buffer.
capsule_decode_string_unchecked(payload, cursor) ==
    IF cursor + 4 > Len(payload)
    THEN [err |-> "ValueError: Unexpected EOF while reading string length",
          data |-> <<>>, cursor |-> cursor]
    ELSE LET length == unpack_from(payload, cursor, 4)
             end == cursor + 4 + length
             text == utf8_decode(Slice(payload, cursor + 4, end))
         IN  IF ~text.ok
             THEN [err |-> "UnicodeDecodeError: invalid utf-8", data |-> <<>>,
                   cursor |-> cursor + 4]
             ELSE [err |-> NoError, data |-> text.s, cursor |-> end]

\* _decode_string(payload, cursor) of the capsule module: [err, data, cursor].
capsule_decode_string(payload, cursor) ==
    IF cursor + 4 > Len(payload)
    THEN [err |-> "ValueError: Unexpected EOF while reading string length",
          data |-> <<>>, cursor |-> cursor]
    ELSE LET length == unpack_from(payload, cursor, 4)
             end == cursor + 4 + length
             text == utf8_decode(Slice(payload, cursor + 4, end))
         IN  IF end > Len(payload)
             THEN [err |-> "ValueError: Unexpected EOF while reading string payload",
                   data |-> <<>>, cursor |-> cursor + 4]
             ELSE IF ~text.ok
                  THEN [err |-> "UnicodeDecodeError: invalid utf-8", data |-> <<>>,
                        cursor |-> cursor + 4]
             ELSE [err |-> NoError, data |-> text.s, cursor |-> end]

CapsuleSection(name, kind, payload) == [name |-> name, kind |-> kind, payload |-> payload]

\* CapsuleMetadata.to_dict()
CapsuleMetadata_to_dict(m) ==
    JObj(<<Pair(K_project, m.project),
           Pair(K_summary, m.summary),
           Pair(K_author, m.author),
           Pair(K_created_at, JStr(isoformat(ensure_timezone(m.created_at)))),
           Pair(K_branch, m.branch),
           Pair(K_revision, m.revision),
           Pair(K_extra, m.extra)>>)

\* CapsuleMetadata.from_dict(data): [err, metadata].
CapsuleMetadata_from_dict(data, now) ==
    LET d == data.a
        created == created_at_from(data, now)
        extra == PyDict(DictGet(d, K_extra, JObj(<<>>)))
        err == IF data.t # "obj" THEN "AttributeError: object has no attribute 'get'"
               ELSE IF created.err # NoError THEN created.err
               ELSE extra.err
    IN  [err |-> err,
         metadata |-> [project |-> DictGet(d, K_project, JStr(<<85, 110, 110, 97, 109, 101, 100,
                                                               32, 80, 114, 111, 106, 101, 99,
                                                               116>>)),
                       summary |-> DictGet(d, K_summary, JStr(<<>>)),
                       author |-> DictGet(d, K_author, JNull),
                       created_at |-> created.dt,
                       branch |-> DictGet(d, K_branch, JNull),
                       revision |-> DictGet(d, K_revision, JNull),
                       extra |-> extra.val]]

\* ContextCapsule.to_bytes().  The guard on payloads above 0xFFFFFFFF bytes
\* cannot fire on a payload TLC can hold.
ContextCapsule_to_bytes(self) ==
    LET created_ms == timestamp_ms(ensure_timezone(self.metadata.created_at))
        metadata_blob == json_dumps(CapsuleMetadata_to_dict(self.metadata))
        section(i) == capsule_encode_string(self.sections[i].name)
                      \o <<self.sections[i].kind>>
                      \o pack(Len(self.sections[i].payload), 4)
                      \o self.sections[i].payload
    IN  CAPSULE_MAGIC
        \o pack(CAPSULE_VERSION, 2)
        \o pack(created_ms, 8)
        \o capsule_encode_string(metadata_blob)
        \o pack(Len(self.sections), 4)
        \o Concat([i \in 1..Len(self.sections) |-> section(i)])

\* get_section returning the last section of the name.
get_section_last(sections, name) ==
    LET at == {i \in 1..Len(sections) : sections[i].name = name}
    IN  IF at = {} THEN None ELSE sections[CHOOSE i \in at : \A j \in at : j <= i]

\* ContextCapsule.get_section(name) on a capsule with the given sections:
\* the loop returns at the first section of that name, None after the loop.
get_section(sections, name) ==
    LET at == {i \in 1..Len(sections) : sections[i].name = name}
    IN  IF at = {} THEN None ELSE sections[CHOOSE i \in at : \A j \in at : i <= j]

\* set_section that leaves the new section alone in the capsule.
set_section_only(sections, section, overwrite) == <<section>>

\* set_section that appends whatever overwrite says.
set_section_append(sections, section, overwrite) == Append(sections, section)

\* ContextCapsule.set_section(section, overwrite): self.sections after it.
set_section(sections, section, overwrite) ==
    LET other(s) == s.name # section.name
        kept == IF overwrite THEN SelectSeq(sections, other) ELSE sections
    IN  Append(kept, section)

\* A section list kept as a map by name: a section takes the place of the
\* one of its name.
sections_append_by_name(sections, section) ==
    IF \E i \in 1..Len(sections) : sections[i].name = section.name
    THEN [i \in 1..Len(sections) |->
             IF sections[i].name = section.name THEN section ELSE sections[i]]
    ELSE Append(sections, section)

\* sections.append(section) in the loop of from_bytes.
sections_append(sections, section) == Append(sections, section)

\* The locals of ContextCapsule.from_bytes as the call starts.
ContextCapsule_from_bytes_enter ==
    [cls |-> "ContextCapsule", pc |-> "magic", cursor |-> 0, created_at |-> None,
     metadata |-> None, section_count |-> 0, sections |-> <<>>, err |-> NoError,
     cause |-> NoError]

\* ContextCapsule.from_bytes(payload), one step of it, as for the tablet;
\* a round of the section loop reads the name, the kind and the payload.
ContextCapsule_from_bytes_step(f, payload, now) ==
    CASE f.pc = "magic" ->
            IF Len(payload) < Len(CAPSULE_MAGIC)
            THEN Raise(f, "ValueError: Payload too small to be a capsule")
            ELSE IF Slice(payload, 0, Len(CAPSULE_MAGIC)) # CAPSULE_MAGIC
                 THEN Raise([f EXCEPT !.cursor = @ + Len(CAPSULE_MAGIC)],
                            "ValueError: Invalid capsule magic header")
            ELSE [f EXCEPT !.cursor = @ + Len(CAPSULE_MAGIC), !.pc = "version"]
      [] f.pc = "version" ->
            IF f.cursor + 2 > Len(payload)
            THEN Raise(f, "ValueError: Capsule missing version field")
            ELSE IF unpack_from(payload, f.cursor, 2) # CAPSULE_VERSION
                 THEN Raise([f EXCEPT !.cursor = @ + 2], "ValueError: Unsupported capsule version")
            ELSE [f EXCEPT !.cursor = @ + 2, !.pc = "timestamp"]
      [] f.pc = "timestamp" ->
            IF f.cursor + 8 > Len(payload)
            THEN Raise(f, "ValueError: Capsule missing creation timestamp")
            ELSE [f EXCEPT !.cursor = @ + 8, !.pc = "metadata",
                           !.created_at = fromtimestamp_ms(unpack_from(payload, f.cursor, 8))]
      [] f.pc = "metadata" ->
            LET str == capsule_decode_string(payload, f.cursor)
                json == json_loads(str.data)
                meta == CapsuleMetadata_from_dict(json.val, now)
            IN  IF str.err # NoError THEN Propagate([f EXCEPT !.cursor = str.cursor], str.err)
                ELSE IF ~json.ok
                     THEN Raise([f EXCEPT !.cursor = str.cursor], "JSONDecodeError: invalid JSON")
                ELSE IF meta.err # NoError THEN Raise([f EXCEPT !.cursor = str.cursor], meta.err)
                ELSE [f EXCEPT !.cursor = str.cursor, !.pc = "section_count",
                               !.metadata = set_created_at(meta.metadata, f.created_at)]
      [] f.pc = "section_count" ->
            IF f.cursor + 4 > Len(payload)
            THEN Raise(f, "ValueError: Capsule missing section count")
            ELSE [f EXCEPT !.cursor = @ + 4, !.pc = "sections",
                           !.section_count = unpack_from(payload, f.cursor, 4)]
      [] f.pc = "sections" ->
            IF Len(f.sections) >= f.section_count THEN [f EXCEPT !.pc = "returned"]
            ELSE LET name == capsule_decode_string(payload, f.cursor)
                     at_kind == name.cursor
                     kind_value == payload[at_kind + 1]
                     at_length == at_kind + 1
                     length == unpack_from(payload, at_length, 4)
                     end == at_length + 4 + length
                 IN  IF name.err # NoError THEN Propagate([f EXCEPT !.cursor = name.cursor], name.err)
                     ELSE IF at_kind >= Len(payload)
                          THEN Raise([f EXCEPT !.cursor = at_kind],
                                     "ValueError: Capsule truncated before section kind")
                     ELSE IF kind_value \notin SectionKind
                          THEN RaiseFrom([f EXCEPT !.cursor = at_length],
                                         "ValueError: Unknown section kind",
                                         "ValueError: not a valid SectionKind")
                     ELSE IF at_length + 4 > Len(payload)
                          THEN Raise([f EXCEPT !.cursor = at_length],
                                     "ValueError: Capsule truncated before payload length")
                     ELSE IF end > Len(payload)
                          THEN Raise([f EXCEPT !.cursor = at_length + 4],
                                     "ValueError: Capsule truncated during payload read")
                     ELSE [f EXCEPT !.cursor = end,
                                    !.sections = sections_append(@,
                                                    CapsuleSection(name.data, kind_value,
                                                        Slice(payload, at_length + 4, end)))]

RECURSIVE ContextCapsule_from_bytes_run(_, _, _)
\* The blocks of ContextCapsule.from_bytes run from f until it returns or
\* raises.
ContextCapsule_from_bytes_run(f, payload, now) ==
    IF f.pc \in {"returned", "raised"} THEN f
    ELSE ContextCapsule_from_bytes_run(ContextCapsule_from_bytes_step(f, payload, now),
                                       payload, now)

\* ContextCapsule.from_bytes(payload): the locals as the call ends.
ContextCapsule_from_bytes(payload, now) ==
    ContextCapsule_from_bytes_run(ContextCapsule_from_bytes_enter, payload, now)

\* What a call that ended with the locals f hands to its caller.
ContextCapsule_from_bytes_result(f) ==
    IF f.pc = "returned"
    THEN [cls |-> "ContextCapsule", metadata |-> f.metadata, sections |-> f.sections]
    ELSE None

(***************************************************************************)
(* The records the model builds, and the bytes it feeds the decoders.      *)
(***************************************************************************)
MaxEntries == 2
MaxSections == 2

Tablet(metadata, entries) == [cls |-> "Tablet", metadata |-> metadata, entries |-> entries]
ContextCapsule(metadata, sections) ==
    [cls |-> "ContextCapsule", metadata |-> metadata, sections |-> sections]

Utc(us) == [us |-> us, tzinfo |-> "utc"]
Naive(us) == [us |-> us, tzinfo |-> "naive"]

\* TabletMetadata(...) as callers construct it: a bare one, a full one whose
\* created_at lies on a millisecond, and one with a naive created_at that
\* lies between two milliseconds.
TabletMetadatas ==
    {[title |-> JStr(<<84>>), summary |-> JStr(<<>>), author |-> JNull, created_at |-> Utc(0),
      tags |-> JArr(<<>>), revision |-> JNull, extra |-> JObj(<<>>)],
     [title |-> JStr(<<233, 34>>), summary |-> JStr(<<115>>), author |-> JStr(<<97>>),
      created_at |-> Utc(1001000), tags |-> JArr(<<JStr(<<97>>), JStr(<<98>>)>>),
      revision |-> JStr(<<114>>),
      extra |-> JObj(<<Pair(<<107>>, JStr(<<118>>)),
                       Pair(<<98>>, JArr(<<JNum(<<49>>), JTrue>>))>>)],
     [title |-> JStr(<<84>>), summary |-> JStr(<<>>), author |-> JNull,
      created_at |-> Naive(1001500), tags |-> JArr(<<>>), revision |-> JNull,
      extra |-> JObj(<<>>)]}

CapsuleMetadatas ==
    {[project |-> JStr(<<80>>), summary |-> JStr(<<>>), author |-> JNull,
      created_at |-> Utc(5000), branch |-> JNull, revision |-> JNull, extra |-> JObj(<<>>)],
     [project |-> JStr(<<233>>), summary |-> JStr(<<115>>), author |-> JStr(<<97>>),
      created_at |-> Naive(1001500), branch |-> JStr(<<109>>), revision |-> JStr(<<114>>),
      extra |-> JObj(<<Pair(<<107>>, JStr(<<118>>)),
                       Pair(<<98>>, JObj(<<Pair(<<122>>, JNull), Pair(<<97>>, JFalse)>>))>>)]}

TabletEntries ==
    {TabletEntry(<<120>>, <<>>, <<>>), TabletEntry(<<233>>, <<43, 108>>, <<34, 110>>)}

\* One section of each kind; the JSON one holds bytes that are neither JSON
\* nor UTF-8, the BINARY one is empty and shares its name with the TEXT one.
CapsuleSections ==
    {CapsuleSection(<<97>>, TEXT, <<104, 105>>),
     CapsuleSection(<<98>>, JSON, <<255, 0>>),
     CapsuleSection(<<97>>, BINARY, <<>>)}

\* Metadata blobs another writer may have put in a buffer: one with a key
\* the reader does not know beside a known "extra", one whose created_at
\* differs from every header, one that is not JSON.
UnknownKey == <<102, 111, 111>>
BlobWithUnknownKey ==
    json_dumps(JObj(<<Pair(K_title, JStr(<<84>>)), Pair(UnknownKey, JStr(<<98, 97, 114>>)),
                      Pair(K_extra, JObj(<<Pair(<<107>>, JStr(<<118>>))>>))>>))
BlobWithOtherCreatedAt ==
    json_dumps(JObj(<<Pair(K_created_at, JStr(isoformat(Utc(9000000))))>>))
BlobMalformed == Slice(BlobWithOtherCreatedAt, 0, Len(BlobWithOtherCreatedAt) - 1)
\* Blobs that lack keys: the empty object, and one with the descriptive
\* keys of both formats and none of the others.
BlobEmptyObject == json_dumps(JObj(<<>>))
BlobDescriptiveOnly ==
    json_dumps(JObj(<<Pair(K_title, JStr(<<116>>)), Pair(K_project, JStr(<<112>>)),
                      Pair(K_summary, JStr(<<115>>))>>))
\* Text that is no JSON at all: no
BlobNotJson == <<110, 111>>
MetadataBlobs ==
    {BlobWithUnknownKey, BlobWithOtherCreatedAt, BlobMalformed, BlobEmptyObject,
     BlobDescriptiveOnly, BlobNotJson}

WrongMagics == {TABLET_MAGIC, CAPSULE_MAGIC, <<65, 85, 82, 65, 84, 65, 66, 50>>}
WrongVersions == {0, 2, 256}
WrongKinds == {0, 4, 255}
OtherTimestamps == {7}
Clock == {Utc(3000000)}

\* The byte layout to_bytes produces: where each header field starts, and
\* where section i's kind byte lies.
VersionOffset == 8
TimestampOffset == 10
MetadataOffset == 18
Splice(bs, at, width, new) == Slice(bs, 0, at) \o new \o Slice(bs, at + width, Len(bs))
SectionBytes(section) ==
    capsule_encode_string(section.name) \o <<section.kind>>
    \o pack(Len(section.payload), 4) \o section.payload
KindOffset(capsule, i) ==
    MetadataOffset + 4 + unpack_from(ContextCapsule_to_bytes(capsule), MetadataOffset, 4) + 4
    + Len(Concat([j \in 1..(i - 1) |-> SectionBytes(capsule.sections[j])]))
    + Len(capsule_encode_string(capsule.sections[i].name))

\* Where the length prefix of every string of a record's encoding starts:
\* the metadata blob, then path, diff and notes of each entry, or the name
\* of each section.
EntryBytes(entry) ==
    encode_string(entry.path) \o encode_string(entry.diff) \o encode_string(entry.notes)
StringOffsets(record) ==
    LET blob == json_dumps(IF record.cls = "Tablet"
                           THEN TabletMetadata_to_dict(record.metadata)
                           ELSE CapsuleMetadata_to_dict(record.metadata))
        first == MetadataOffset + Len(encode_string(blob)) + 4
        entry(i) == first + Len(Concat([j \in 1..(i - 1) |-> EntryBytes(record.entries[j])]))
        section(i) == first + Len(Concat([j \in 1..(i - 1) |-> SectionBytes(record.sections[j])]))
    IN  IF record.cls = "Tablet"
        THEN {MetadataOffset}
             \cup UNION {{entry(i),
                          entry(i) + Len(encode_string(record.entries[i].path)),
                          entry(i) + Len(encode_string(record.entries[i].path))
                             + Len(encode_string(record.entries[i].diff))}
                         : i \in 1..Len(record.entries)}
        ELSE {MetadataOffset} \cup {section(i) : i \in 1..Len(record.sections)}
\* What may follow a record in a buffer: one byte, and the beginning of a
\* string of a length no buffer has.
TrailingBytes == {<<0>>, <<255, 255, 255, 255, 120>>}
\* Bytes that no UTF-8 text holds in first place: 0xFF, and a continuation
\* byte with no lead byte before it.
InvalidBytes == {255, 128}

\* The names a reader asks get_section for; no section has the last one.
SectionNames == {<<97>>, <<98>>, <<122>>}

\* self is the record being built and payload its bytes; call and result
\* are the locals and the return of the decode; last is the method called
\* last on a record, with its arguments and the list it found, and found
\* is what get_section returned.
VARIABLES self, payload, edits, pc, call, result, last, found
vars == <<self, payload, edits, pc, call, result, last, found>>

\* The programs around the two formats.  sessions is the directory
\* ./sessions, a function from file names to the bytes of the files; clock
\* is the system clock in whole seconds; state_file is the text of
\* ~/.medicine_cabinet/context_state.json, None while there is no file;
\* tracker holds the class attributes of AutoSessionTracker and the fields
\* of its one instance; manager is the state dict of the ContextManager
\* alive, None before one is constructed; handled is the call made last,
\* with its arguments, what it found and what it returned.
VARIABLES sessions, clock, state_file, tracker, manager, handled
appVars == <<sessions, clock, state_file, tracker, manager, handled>>

Items(record) == IF record.cls = "Tablet" THEN record.entries ELSE record.sections
Called(op, arg, overwrite, before) ==
    [op |-> op, arg |-> arg, overwrite |-> overwrite, before |-> before]

Init ==
    /\ self \in {Tablet(m, <<>>) : m \in TabletMetadatas}
                \cup {ContextCapsule(m, <<>>) : m \in CapsuleMetadatas}
    /\ payload = <<>>
    /\ edits = {}
    /\ pc = "build"
    /\ call = None
    /\ result = None
    /\ last = None
    /\ found = None
    /\ sessions = <<>> /\ clock = 0 /\ state_file = None
    /\ tracker = None /\ manager = None /\ handled = None

\* add_entry writing over the newest entry when there is one.
Tablet_add_entry_in_place(entry) ==
    /\ pc = "build" /\ self.cls = "Tablet" /\ Len(self.entries) < MaxEntries
    /\ self' = [self EXCEPT !.entries = IF @ = <<>> THEN <<entry>>
                                        ELSE [@ EXCEPT ![Len(@)] = entry]]
    /\ last' = Called("add_entry", entry, FALSE, self.entries)
    /\ UNCHANGED <<payload, edits, pc, call, result, found>>
    /\ UNCHANGED appVars

\* Tablet.add_entry(path=entry.path, diff=entry.diff, notes=entry.notes)
Tablet_add_entry(entry) ==
    /\ pc = "build" /\ self.cls = "Tablet" /\ Len(self.entries) < MaxEntries
    /\ self' = [self EXCEPT !.entries = Append(@, entry)]
    /\ last' = Called("add_entry", entry, FALSE, self.entries)
    /\ UNCHANGED <<payload, edits, pc, call, result, found>>
    /\ UNCHANGED appVars

\* ContextCapsule.add_section(section)
ContextCapsule_add_section(section) ==
    /\ pc = "build" /\ self.cls = "ContextCapsule" /\ Len(self.sections) < MaxSections
    /\ self' = [self EXCEPT !.sections = Append(@, section)]
    /\ last' = Called("add_section", section, FALSE, self.sections)
    /\ UNCHANGED <<payload, edits, pc, call, result, found>>
    /\ UNCHANGED appVars

\* ContextCapsule.set_section(section, overwrite)
ContextCapsule_set_section(section, overwrite) ==
    /\ pc = "build" /\ self.cls = "ContextCapsule"
    /\ Len(set_section(self.sections, section, overwrite)) <= MaxSections
    /\ self' = [self EXCEPT !.sections = set_section(@, section, overwrite)]
    /\ last' = Called("set_section", section, overwrite, self.sections)
    /\ UNCHANGED <<payload, edits, pc, call, result, found>>
    /\ UNCHANGED appVars

\* found = capsule.get_section(name), asked of the capsule being built or
\* of the capsule a decode returned.
ContextCapsule_get_section_call(name) ==
    /\ \/ pc = "build" /\ self.cls = "ContextCapsule"
          /\ found' = get_section(self.sections, name)
          /\ last' = Called("get_section", name, FALSE, self.sections)
       \/ pc = "done" /\ call.cls = "ContextCapsule" /\ call.pc = "returned"
          /\ found' = get_section(result.sections, name)
          /\ last' = Called("get_section", name, FALSE, result.sections)
    /\ pc' = "queried"
    /\ UNCHANGED <<self, payload, edits, call, result>>
    /\ UNCHANGED appVars

\* payload = tablet.to_bytes()
Tablet_to_bytes_call ==
    /\ pc = "build" /\ self.cls = "Tablet"
    /\ payload' = Tablet_to_bytes(self)
    /\ pc' = "encoded"
    /\ last' = Called("to_bytes", None, FALSE, Items(self))
    /\ UNCHANGED <<self, edits, call, result, found>>
    /\ UNCHANGED appVars

\* payload = capsule.to_bytes()
ContextCapsule_to_bytes_call ==
    /\ pc = "build" /\ self.cls = "ContextCapsule"
    /\ payload' = ContextCapsule_to_bytes(self)
    /\ pc' = "encoded"
    /\ last' = Called("to_bytes", None, FALSE, Items(self))
    /\ UNCHANGED <<self, edits, call, result, found>>
    /\ UNCHANGED appVars

\* What happens to the bytes between a writer and a reader: a short read,
\* another magic, another version, another timestamp, another writer's
\* metadata blob, another kind byte.  edits remembers what was done.
Truncate(k) ==
    /\ pc = "encoded" /\ edits = {} /\ k < Len(payload)
    /\ payload' = Slice(payload, 0, k)
    /\ edits' = {"truncate"}
    /\ UNCHANGED <<self, pc, call, result, last, found>>
    /\ UNCHANGED appVars

WriteMagic(magic) ==
    /\ pc = "encoded" /\ edits \subseteq {"version"}
    /\ magic # Slice(payload, 0, Len(magic))
    /\ payload' = Splice(payload, 0, Len(magic), magic)
    /\ edits' = edits \cup {"magic"}
    /\ UNCHANGED <<self, pc, call, result, last, found>>
    /\ UNCHANGED appVars

WriteVersion(version) ==
    /\ pc = "encoded" /\ edits = {}
    /\ payload' = Splice(payload, VersionOffset, 2, pack(version, 2))
    /\ edits' = {"version"}
    /\ UNCHANGED <<self, pc, call, result, last, found>>
    /\ UNCHANGED appVars

WriteTimestamp(ms) ==
    /\ pc = "encoded" /\ edits = {}
    /\ payload' = Splice(payload, TimestampOffset, 8, pack(ms, 8))
    /\ edits' = {"timestamp"}
    /\ UNCHANGED <<self, pc, call, result, last, found>>
    /\ UNCHANGED appVars

WriteMetadata(blob) ==
    /\ pc = "encoded" /\ edits = {}
    /\ payload' = Splice(payload, MetadataOffset, 4 + unpack_from(payload, MetadataOffset, 4),
                         encode_string(blob))
    /\ edits' = {"metadata"}
    /\ UNCHANGED <<self, pc, call, result, last, found>>
    /\ UNCHANGED appVars

\* The first byte of a string's payload becomes one that is not UTF-8.
WriteInvalidUtf8(at, byte) ==
    /\ pc = "encoded" /\ edits = {}
    /\ unpack_from(payload, at, 4) > 0
    /\ payload' = Splice(payload, at + 4, 1, <<byte>>)
    /\ edits' = {"utf8"}
    /\ UNCHANGED <<self, pc, call, result, last, found>>
    /\ UNCHANGED appVars

\* Bytes behind the record: the rest of a file, another record.
AppendBytes(tail) ==
    /\ pc = "encoded" /\ edits = {}
    /\ payload' = payload \o tail
    /\ edits' = {"trailing"}
    /\ UNCHANGED <<self, pc, call, result, last, found>>
    /\ UNCHANGED appVars

WriteKind(i, kind) ==
    /\ pc = "encoded" /\ edits = {} /\ self.cls = "ContextCapsule"
    /\ i \in 1..Len(self.sections)
    /\ payload' = Splice(payload, KindOffset(self, i), 1, <<kind>>)
    /\ edits' = {"kind"}
    /\ UNCHANGED <<self, pc, call, result, last, found>>
    /\ UNCHANGED appVars

\* record = Tablet.from_bytes(payload): call holds the locals as the call
\* ended, result what the caller received.
Tablet_from_bytes_call ==
    /\ pc = "encoded"
    /\ \E now \in Clock : call' = Tablet_from_bytes(payload, now)
    /\ result' = Tablet_from_bytes_result(call')
    /\ pc' = "done"
    /\ UNCHANGED <<self, payload, edits, last, found>>
    /\ UNCHANGED appVars

\* record = ContextCapsule.from_bytes(payload)
ContextCapsule_from_bytes_call ==
    /\ pc = "encoded"
    /\ \E now \in Clock : call' = ContextCapsule_from_bytes(payload, now)
    /\ result' = ContextCapsule_from_bytes_result(call')
    /\ pc' = "done"
    /\ UNCHANGED <<self, payload, edits, last, found>>
    /\ UNCHANGED appVars

Next ==
    \/ \E entry \in TabletEntries : Tablet_add_entry(entry)
    \/ \E section \in CapsuleSections : ContextCapsule_add_section(section)
    \/ \E section \in CapsuleSections, overwrite \in BOOLEAN :
          ContextCapsule_set_section(section, overwrite)
    \/ \E name \in SectionNames : ContextCapsule_get_section_call(name)
    \/ Tablet_to_bytes_call
    \/ ContextCapsule_to_bytes_call
    \/ \E k \in 0..Len(payload) : Truncate(k)
    \/ \E magic \in WrongMagics : WriteMagic(magic)
    \/ \E version \in WrongVersions : WriteVersion(version)
    \/ \E ms \in OtherTimestamps : WriteTimestamp(ms)
    \/ \E blob \in MetadataBlobs : WriteMetadata(blob)
    \/ \E i \in 1..MaxSections, kind \in WrongKinds : WriteKind(i, kind)
    \/ \E tail \in TrailingBytes : AppendBytes(tail)
    \/ /\ pc = "encoded" /\ edits = {}
       /\ \E at \in StringOffsets(self), byte \in InvalidBytes : WriteInvalidUtf8(at, byte)
    \/ Tablet_from_bytes_call
    \/ ContextCapsule_from_bytes_call

Spec == Init /\ [][Next]_vars

(***************************************************************************)
(* The vocabulary of the properties.                                       *)
(***************************************************************************)
\* The error kind a raised exception stands for.  The code raises
\* ValueError for every format error and tells the cases apart by message.
ErrorKind(err) ==
    CASE err \in {"ValueError: Invalid tablet magic header",
                  "ValueError: Invalid capsule magic header"} -> "BadMagic"
      [] err \in {"ValueError: Unsupported tablet version",
                  "ValueError: Unsupported capsule version"} -> "UnsupportedVersion"
      [] err \in {"ValueError: Payload too small to be a valid tablet",
                  "ValueError: Corrupt tablet: missing version",
                  "ValueError: Corrupt tablet: missing timestamp",
                  "ValueError: Corrupt tablet: missing entry count",
                  "ValueError: Unexpected EOF while reading string length",
                  "ValueError: Unexpected EOF while reading string payload",
                  "ValueError: Payload too small to be a capsule",
                  "ValueError: Capsule missing version field",
                  "ValueError: Capsule missing creation timestamp",
                  "ValueError: Capsule missing section count",
                  "ValueError: Capsule truncated before section kind",
                  "ValueError: Capsule truncated before payload length",
                  "ValueError: Capsule truncated during payload read"} -> "TruncatedInput"
      [] err = "UnicodeDecodeError: invalid utf-8" -> "InvalidUtf8"
      [] err = "JSONDecodeError: invalid JSON" -> "MalformedMetadata"
      [] err = "ValueError: Unknown section kind" -> "UnknownSectionKind"
      [] OTHER -> "Untyped"

MagicOf(cls) == IF cls = "Tablet" THEN TABLET_MAGIC ELSE CAPSULE_MAGIC
DeclaredCount(f) == IF f.cls = "Tablet" THEN f.entry_count ELSE f.section_count
Encoded(record) ==
    IF record.cls = "Tablet" THEN Tablet_to_bytes(record) ELSE ContextCapsule_to_bytes(record)

\* A call is over; it was made to the decoder of the class that wrote the
\* bytes; it failed with an error of the given kind and returned nothing.
Done == pc = "done"
Matching == call.cls = self.cls
FailedWith(kind) == call.pc = "raised" /\ ErrorKind(call.err) = kind /\ result = None
Succeeded == call.pc = "returned" /\ result # None

\* The instant of a datetime, cut to whole milliseconds.
TruncatedToMillis(dt) ==
    Utc((ensure_timezone(dt).us \div MillisPerSecond) * MillisPerSecond)

\* The metadata object and the header fields the bytes in hand carry.
PayloadVersion == unpack_from(payload, VersionOffset, 2)
PayloadTimestamp == unpack_from(payload, TimestampOffset, 8)
PayloadMetadata == json_loads(decode_string(payload, MetadataOffset).data).val
MetadataEnd == MetadataOffset + 4 + unpack_from(payload, MetadataOffset, 4)

\* The metadata object in the bytes the returned record encodes to.
ReencodedMetadata ==
    json_loads(decode_string(Encoded(result), MetadataOffset).data).val

(***************************************************************************)
(* C1.  Tablet round trip.                                                 *)
(***************************************************************************)
\* C1: Tablet.from_bytes(T.to_bytes()) succeeds and returns a Tablet whose
\* metadata fields equal T's, created_at up to truncation to the
\* millisecond, and whose entries equal T's, element for element, in order.
C1_TabletRoundTrip ==
    (Done /\ edits = {} /\ self.cls = "Tablet" /\ call.cls = "Tablet") =>
        /\ Succeeded
        /\ result.metadata.title = self.metadata.title
        /\ result.metadata.summary = self.metadata.summary
        /\ result.metadata.author = self.metadata.author
        /\ result.metadata.tags = self.metadata.tags
        /\ result.metadata.revision = self.metadata.revision
        /\ DictEq(result.metadata.extra.a, self.metadata.extra.a)
        /\ result.metadata.created_at = TruncatedToMillis(self.metadata.created_at)
        /\ result.entries = self.entries

(***************************************************************************)
(* C2.  Capsule round trip.                                                *)
(***************************************************************************)
\* C2: ContextCapsule.from_bytes(C.to_bytes()) succeeds and returns the same
\* sections in the same order, each with the same name, the same kind and
\* the same payload bytes, whatever the kind and whatever the bytes.
C2_CapsuleRoundTrip ==
    (Done /\ edits = {} /\ self.cls = "ContextCapsule" /\ call.cls = "ContextCapsule") =>
        /\ Succeeded
        /\ Len(result.sections) = Len(self.sections)
        /\ \A i \in 1..Len(self.sections) :
              /\ result.sections[i].name = self.sections[i].name
              /\ result.sections[i].kind = self.sections[i].kind
              /\ result.sections[i].payload = self.sections[i].payload

\* A capsule with two sections came back, the second of kind JSON with a
\* payload that is neither JSON nor UTF-8.
C2_Witness ==
    /\ Done /\ edits = {} /\ self.cls = "ContextCapsule" /\ call.cls = "ContextCapsule"
    /\ Len(self.sections) = 2 /\ self.sections[1].kind = TEXT /\ self.sections[2].kind = JSON
    /\ Succeeded
    /\ result.sections[2].payload = <<255, 0>>

(***************************************************************************)
(* C3.  Truncation safety.                                                 *)
(***************************************************************************)
\* C3: decoding any proper prefix of an encoded Tablet or Capsule with the
\* matching decoder fails with a TruncatedInput error and returns no record.
C3_TruncationSafety ==
    (Done /\ edits = {"truncate"} /\ Matching) => FailedWith("TruncatedInput")

\* A record with two entries or sections lost its last byte, and the
\* decoder got as far as the second of them before it failed.
C3_Witness ==
    /\ Done /\ edits = {"truncate"} /\ Matching
    /\ Len(Items(self)) = 2 /\ Len(payload) = Len(Encoded(self)) - 1
    /\ Len(Items(call)) = 1
    /\ FailedWith("TruncatedInput")

(***************************************************************************)
(* C4.  Magic gating.                                                      *)
(***************************************************************************)
\* C4: a buffer of at least 8 bytes whose first 8 bytes are not the
\* decoder's magic fails with BadMagic, whatever follows them; so does every
\* encoding of one format given to the other format's decoder.
C4_MagicGating ==
    /\ (Done /\ Len(payload) >= 8 /\ Slice(payload, 0, 8) # MagicOf(call.cls)) =>
            FailedWith("BadMagic")
    /\ (Done /\ edits = {} /\ ~Matching) => FailedWith("BadMagic")

\* The magic was overwritten in a buffer whose version is unsupported too,
\* and the decoder of the writer's class reported the magic.
C4_Witness ==
    /\ Done /\ edits = {"version", "magic"} /\ Matching
    /\ PayloadVersion # 1
    /\ FailedWith("BadMagic")

(***************************************************************************)
(* C5.  Version gate.                                                      *)
(***************************************************************************)
\* C5: a valid encoding whose version field alone was changed to a value
\* other than 1 fails with UnsupportedVersion and returns no record.
C5_VersionGate ==
    (Done /\ edits = {"version"} /\ Matching /\ PayloadVersion # 1) =>
        FailedWith("UnsupportedVersion")

\* The version field held 256, the bytes of 1 swapped.
C5_Witness ==
    /\ Done /\ edits = {"version"} /\ Matching /\ PayloadVersion = 256
    /\ FailedWith("UnsupportedVersion")

(***************************************************************************)
(* C6.  Unknown section kind.                                              *)
(***************************************************************************)
\* C6: a Capsule buffer that is well formed but for one section's kind
\* byte, which is 0 or at least 4, fails with UnknownSectionKind and returns
\* no record, whichever section the byte belongs to.
C6_UnknownSectionKind ==
    (Done /\ edits = {"kind"} /\ call.cls = "ContextCapsule") =>
        FailedWith("UnknownSectionKind")

\* The second section's kind byte was the bad one; the first section had
\* been decoded.
C6_Witness ==
    /\ Done /\ edits = {"kind"} /\ call.cls = "ContextCapsule"
    /\ Len(self.sections) = 2
    /\ payload[KindOffset(self, 1) + 1] \in {TEXT, JSON, BINARY}
    /\ payload[KindOffset(self, 2) + 1] >= 4
    /\ Len(call.sections) = 1
    /\ FailedWith("UnknownSectionKind")

(***************************************************************************)
(* C7.  Empty records.                                                     *)
(***************************************************************************)
\* C7: a Tablet without entries and a ContextCapsule without sections
\* encode to bytes that end with a count field of 0, and decode to a record
\* whose list of entries or sections is empty.
C7_EmptyRecord ==
    (Done /\ edits = {} /\ Matching /\ Items(self) = <<>>) =>
        /\ Len(payload) = MetadataEnd + 4
        /\ unpack_from(payload, MetadataEnd, 4) = 0
        /\ Succeeded
        /\ Items(result) = <<>>

\* A capsule without sections came back without sections.
C7_Witness ==
    /\ Done /\ edits = {} /\ Matching /\ self.cls = "ContextCapsule" /\ self.sections = <<>>
    /\ Succeeded
    /\ result.sections = <<>>

(***************************************************************************)
(* C8.  All-or-nothing decode.                                             *)
(***************************************************************************)
\* C8: a decode that fails anywhere, in the header, the metadata or the
\* i-th entry or section, fails as a whole: what it had decoded is not
\* returned; and a decode that returns has decoded every entry or section
\* the count field declares, in order, skipping none.
C8_AllOrNothing ==
    Done =>
        IF call.err # NoError
        THEN call.pc = "raised" /\ result = None
        ELSE /\ call.pc = "returned"
             /\ result # None
             /\ result.metadata = call.metadata
             /\ Items(result) = Items(call)
             /\ Len(Items(result)) = DeclaredCount(call)
             /\ DeclaredCount(call) = unpack_from(payload, MetadataEnd, 4)

\* The second entry of a tablet could not be read: the first one had been
\* decoded, and the caller received nothing.
C8_Witness ==
    /\ Done /\ call.cls = "Tablet" /\ call.pc = "raised"
    /\ call.entry_count = 2 /\ Len(call.entries) = 1
    /\ result = None

(***************************************************************************)
(* C9.  The header timestamp is authoritative.                             *)
(***************************************************************************)
\* C9: after every successful decode, metadata.created_at is the instant
\* of the header's epoch-millisecond field, whatever created_at the
\* metadata blob holds: the same, another or none.
C9_HeaderTimestamp ==
    (Done /\ call.pc = "returned") =>
        result.metadata.created_at = Utc(PayloadTimestamp * MillisPerSecond)

\* The blob's created_at was nine seconds, the header's was not, and the
\* record came back with the header's.
C9_Witness ==
    /\ Done /\ edits = {"metadata"} /\ call.pc = "returned"
    /\ decode_string(payload, MetadataOffset).data = BlobWithOtherCreatedAt
    /\ PayloadTimestamp # 9000
    /\ result.metadata.created_at = Utc(PayloadTimestamp * MillisPerSecond)

(***************************************************************************)
(* C10.  Metadata keys the reader does not know.                           *)
(***************************************************************************)
\* C10, as claimed: when the metadata object has a top-level key that is
\* not a recognized field, decode succeeds, the key and its value are in
\* the decoded extension map, and they are in the metadata again after the
\* record is encoded.
C10_UnknownKeyPreserved ==
    (Done /\ edits = {"metadata"} /\ Matching /\ DictHas(PayloadMetadata.a, UnknownKey)) =>
        /\ Succeeded
        /\ DictHas(result.metadata.extra.a, UnknownKey)
        /\ DictGet(result.metadata.extra.a, UnknownKey, JNull)
              = DictGet(PayloadMetadata.a, UnknownKey, JNull)
        /\ DictHas(ReencodedMetadata.a, UnknownKey)

\* C10, amended: when the metadata object has a top-level key that is not
\* a recognized field, decode succeeds and the key is dropped: the decoded
\* extension map holds the items of the object's "extra" member and nothing
\* else, and the key is in no part of the metadata the record encodes to.
C10_UnknownKeyDropped ==
    (Done /\ edits = {"metadata"} /\ Matching /\ DictHas(PayloadMetadata.a, UnknownKey)) =>
        /\ Succeeded
        /\ ~DictHas(result.metadata.extra.a, UnknownKey)
        /\ result.metadata.extra = DictGet(PayloadMetadata.a, K_extra, JObj(<<>>))
        /\ ~DictHas(ReencodedMetadata.a, UnknownKey)
        /\ ~DictHas(DictGet(ReencodedMetadata.a, K_extra, JObj(<<>>)).a, UnknownKey)

\* A blob with the key "foo" beside an "extra" object was decoded, and the
\* extension map holds that object's one item.
C10_Witness ==
    /\ Done /\ edits = {"metadata"} /\ Matching
    /\ DictHas(PayloadMetadata.a, UnknownKey)
    /\ Succeeded
    /\ result.metadata.extra = JObj(<<Pair(<<107>>, JStr(<<118>>))>>)

(***************************************************************************)
(* C11.  Metadata keys the blob lacks.                                     *)
(***************************************************************************)
\* The blob in the bytes in hand parses to a JSON object, and lacks a key.
PayloadBlob == json_loads(decode_string(payload, MetadataOffset).data)
BlobIsObject == PayloadBlob.ok /\ PayloadBlob.val.t = "obj"
Missing(key) == ~DictHas(PayloadMetadata.a, key)
\* A field that is absent or empty.
AbsentOrEmpty(x) == x \in {JNull, JStr(<<>>), JArr(<<>>), JObj(<<>>)}
\* The fields every metadata has, and those of one format only.
DefaultsOfSharedKeys ==
    /\ Missing(K_summary) => result.metadata.summary = JStr(<<>>)
    /\ Missing(K_author) => result.metadata.author = JNull
    /\ Missing(K_revision) => result.metadata.revision = JNull
    /\ Missing(K_extra) => result.metadata.extra = JObj(<<>>)
    /\ Missing(K_created_at) =>
          result.metadata.created_at = Utc(PayloadTimestamp * MillisPerSecond)
    /\ call.cls = "Tablet" => (Missing(K_tags) => result.metadata.tags = JArr(<<>>))
    /\ call.cls = "ContextCapsule" => (Missing(K_branch) => result.metadata.branch = JNull)

\* C11, as claimed: a metadata blob that is a JSON object lacking any of the
\* metadata keys decodes, and every field whose key is missing is absent or
\* empty (created_at being the header's).
C11_MissingKeysEmpty ==
    (Done /\ edits = {"metadata"} /\ Matching /\ BlobIsObject) =>
        /\ Succeeded
        /\ DefaultsOfSharedKeys
        /\ (call.cls = "Tablet" /\ Missing(K_title)) => AbsentOrEmpty(result.metadata.title)
        /\ (call.cls = "ContextCapsule" /\ Missing(K_project)) =>
              AbsentOrEmpty(result.metadata.project)

\* C11, amended: such a blob decodes, and every field whose key is missing
\* has its default: summary "", author, revision and branch None, tags [],
\* extra {}, created_at the header's instant, and for the name of the record
\* a placeholder, title "Untitled Tablet" and project "Unnamed Project".
C11_MissingKeysDefault ==
    (Done /\ edits = {"metadata"} /\ Matching /\ BlobIsObject) =>
        /\ Succeeded
        /\ DefaultsOfSharedKeys
        /\ (call.cls = "Tablet" /\ Missing(K_title)) =>
              result.metadata.title
                 = JStr(<<85, 110, 116, 105, 116, 108, 101, 100, 32, 84, 97, 98, 108, 101, 116>>)
        /\ (call.cls = "ContextCapsule" /\ Missing(K_project)) =>
              result.metadata.project
                 = JStr(<<85, 110, 110, 97, 109, 101, 100, 32, 80, 114, 111, 106, 101, 99, 116>>)

\* The empty object was decoded as a capsule's metadata: every key was
\* missing, and the record came back with no author and no extras.
C11_Witness ==
    /\ Done /\ edits = {"metadata"} /\ Matching /\ call.cls = "ContextCapsule"
    /\ PayloadBlob.ok /\ PayloadBlob.val = JObj(<<>>)
    /\ Succeeded
    /\ result.metadata.author = JNull /\ result.metadata.extra = JObj(<<>>)

(***************************************************************************)
(* C12.  A metadata blob that is not JSON.                                 *)
(***************************************************************************)
\* C12: when the header is valid and the metadata string lies inside the
\* buffer and is valid UTF-8 but is not JSON (an object cut before its
\* closing brace, a bare word), the decode fails with a MalformedMetadata
\* error and returns no record.
C12_MalformedMetadata ==
    (/\ Done /\ edits = {"metadata"} /\ Matching
     /\ decode_string(payload, MetadataOffset).err = NoError
     /\ decode_string(payload, MetadataOffset).data \in {BlobMalformed, BlobNotJson}) =>
        FailedWith("MalformedMetadata")

\* A capsule whose blob lost its closing brace was decoded, and the call
\* raised json's error.
C12_Witness ==
    /\ Done /\ edits = {"metadata"} /\ Matching /\ call.cls = "ContextCapsule"
    /\ decode_string(payload, MetadataOffset).data = BlobMalformed
    /\ call.pc = "raised" /\ call.err = "JSONDecodeError: invalid JSON"
    /\ result = None

(***************************************************************************)
(* C13.  A string that is not UTF-8.                                       *)
(***************************************************************************)
\* Where the bytes in hand differ from the record's encoding: the cursor of
\* the string whose first byte was overwritten.
EditedString ==
    LET encoded == Encoded(self)
    IN  (CHOOSE i \in 1..Len(payload) : payload[i] # encoded[i]) - 1 - 4

\* C13: _decode_string on a string whose length prefix and payload lie
\* inside the buffer but whose payload is not UTF-8 fails with InvalidUtf8,
\* which is not a TruncatedInput error; and the decode of a Tablet or
\* Capsule that holds such a string (metadata, path, diff, notes, section
\* name) fails with it and returns no record.
C13_InvalidUtf8 ==
    (Done /\ edits = {"utf8"} /\ Matching) =>
        LET at == EditedString
        IN  /\ at + 4 + unpack_from(payload, at, 4) <= Len(payload)
            /\ ErrorKind(decode_string(payload, at).err) = "InvalidUtf8"
            /\ ErrorKind(capsule_decode_string(payload, at).err) = "InvalidUtf8"
            /\ FailedWith("InvalidUtf8")
            /\ ~FailedWith("TruncatedInput")

\* The notes of a tablet's second entry were made invalid, and the decode
\* raised after it had read the first entry.
C13_Witness ==
    /\ Done /\ edits = {"utf8"} /\ Matching /\ call.cls = "Tablet"
    /\ Len(self.entries) = 2 /\ Len(call.entries) = 1
    /\ call.pc = "raised" /\ call.err = "UnicodeDecodeError: invalid utf-8"
    /\ result = None

(***************************************************************************)
(* C14.  What the caller sees of a primitive's failure.                    *)
(***************************************************************************)
\* The strings of the tablet in hand that _decode_string cannot read from
\* the bytes in hand.
UnreadableStrings ==
    {at \in StringOffsets(self) : decode_string(payload, at).err # NoError}
Min(S) == CHOOSE x \in S : \A y \in S : x <= y
Max(S) == CHOOSE x \in S : \A y \in S : y <= x
\* A Tablet's bytes, cut short or with a string that is not UTF-8, were
\* decoded, and the header was whole.
DamagedTabletDecoded ==
    /\ Done /\ self.cls = "Tablet" /\ Matching
    /\ edits \in {{"truncate"}, {"utf8"}}
    /\ Len(payload) >= MetadataOffset
\* Tablet.from_bytes met a primitive's failure: of the unreadable strings
\* bad, the decoder got as far as the first (the metadata, or an entry's
\* string behind a whole entry count).
PrimitiveFailure(bad) ==
    /\ bad # {}
    /\ Min(bad) = MetadataOffset \/ Len(payload) >= MetadataEnd + 4
\* The errors of the primitive codec, and the format errors of the tablet.
PrimitiveErrors ==
    {"ValueError: Unexpected EOF while reading string length",
     "ValueError: Unexpected EOF while reading string payload",
     "UnicodeDecodeError: invalid utf-8"}
CorruptTablet(err) ==
    err \in {"ValueError: Corrupt tablet: missing version",
             "ValueError: Corrupt tablet: missing timestamp",
             "ValueError: Corrupt tablet: missing entry count",
             "ValueError: Corrupt tablet: unreadable string"}

\* C14, as claimed: a failure of the primitive codec while a Tablet's
\* metadata or entries are decoded reaches the caller as a CorruptTablet
\* error whose cause is the primitive's failure.
C14_WrappedInCorruptTablet ==
    DamagedTabletDecoded =>
        LET bad == UnreadableStrings
        IN  PrimitiveFailure(bad) =>
                /\ call.pc = "raised"
                /\ CorruptTablet(call.err)
                /\ call.cause \in PrimitiveErrors

\* C14, amended: such a failure reaches the caller as it left the
\* primitive, the ValueError "Unexpected EOF ..." or the UnicodeDecodeError
\* of the first unreadable string: no CorruptTablet error takes its place,
\* and the error has no cause attached.  No record is returned.
C14_PrimitiveErrorUnwrapped ==
    DamagedTabletDecoded =>
        LET bad == UnreadableStrings
        IN  PrimitiveFailure(bad) =>
                /\ call.pc = "raised" /\ result = None
                /\ call.err = decode_string(payload, Min(bad)).err
                /\ call.err \in PrimitiveErrors
                /\ ~CorruptTablet(call.err)
                /\ call.cause = NoError

\* A tablet cut inside the diff of its first entry was decoded, and the
\* caller got the primitive's own error.
C14_Witness ==
    /\ DamagedTabletDecoded /\ edits = {"truncate"}
    /\ Len(self.entries) >= 1 /\ Len(payload) > MetadataEnd + 4
    /\ call.err = "ValueError: Unexpected EOF while reading string payload"
    /\ call.cause = NoError /\ result = None

(***************************************************************************)
(* C15.  set_section with overwrite.                                       *)
(***************************************************************************)
RECURSIVE Without(_, _)
\* The sections of a list that do not have the given name, in their order.
Without(sections, name) ==
    IF sections = <<>> THEN <<>>
    ELSE IF Head(sections).name = name THEN Without(Tail(sections), name)
    ELSE <<Head(sections)>> \o Without(Tail(sections), name)
Named(sections, name) == {i \in 1..Len(sections) : sections[i].name = name}
SetSectionCalled(overwrite) ==
    /\ pc = "build" /\ last # None
    /\ last.op = "set_section" /\ last.overwrite = overwrite

AskedAmongDuplicates ==
    /\ pc = "queried" /\ last.op = "get_section"
    /\ Cardinality(Named(last.before, last.arg)) > 1

\* C16, as claimed: when a capsule holds several sections of one name,
\* get_section(name) returns the last of them in list order.
C16_LastSectionWins ==
    AskedAmongDuplicates =>
        found = last.before[Max(Named(last.before, last.arg))]

\* C16, amended: when a capsule holds several sections of one name,
\* get_section(name) returns the first of them in list order.
C16_FirstSectionWins ==
    AskedAmongDuplicates => found = last.before[Min(Named(last.before, last.arg))]

\* A decoded capsule with a TEXT section "a" before a BINARY section "a"
\* was asked for "a", and the TEXT one came back.
C16_Witness ==
    /\ AskedAmongDuplicates /\ call # None /\ last.before = result.sections
    /\ last.before[1].kind = TEXT /\ last.before[2].kind = BINARY
    /\ found = last.before[1]

(***************************************************************************)
(* C17.  Entries are appended.                                             *)
(***************************************************************************)
\* C17: add_entry(path, diff, notes) makes the entry list one longer, keeps
\* every entry it found where it was, and puts an entry with that path,
\* diff and notes last; so the list is always the entries added, in the
\* order of the calls.
C17_AppendOnly ==
    (pc = "build" /\ last # None /\ last.op = "add_entry") =>
        /\ Len(self.entries) = Len(last.before) + 1
        /\ SubSeq(self.entries, 1, Len(last.before)) = last.before
        /\ self.entries[Len(self.entries)]
              = [path |-> last.arg.path, diff |-> last.arg.diff, notes |-> last.arg.notes]

\* A tablet that held one entry was given a different one, and holds both.
C17_Witness ==
    /\ pc = "build" /\ last # None /\ last.op = "add_entry"
    /\ Len(last.before) = 1 /\ last.before[1] # last.arg
    /\ self.entries = <<last.before[1], last.arg>>

(***************************************************************************)
(* C18.  Deterministic encoding.                                           *)
(***************************************************************************)
RECURSIVE ReverseKeys(_)
\* The same JSON value built with the keys of every object inserted in the
\* opposite order: as a Python dict, an equal value.
ReverseKeys(x) ==
    CASE x.t = "obj" ->
            JObj([i \in 1..Len(x.a) |->
                     Pair(x.a[Len(x.a) + 1 - i].k, ReverseKeys(x.a[Len(x.a) + 1 - i].v))])
      [] x.t = "arr" -> JArr([i \in 1..Len(x.a) |-> ReverseKeys(x.a[i])])
      [] OTHER -> x
\* A record equal to the one in hand, its extension map built the other way.
SelfReordered == [self EXCEPT !.metadata.extra = ReverseKeys(@)]
JustEncoded == pc = "encoded" /\ edits = {}

\* C18: a record with equal metadata fields, whatever the insertion order
\* of the keys of its extension map, and equal entries or sections encodes
\* to the bytes to_bytes returned for the record in hand; and so does the
\* record in hand when it is encoded again.
C18_DeterministicEncoding ==
    JustEncoded =>
        /\ Encoded(SelfReordered) = payload
        /\ Encoded(self) = payload

\* A record whose extension map holds "k" before "b" was encoded, and the
\* record with "b" before "k" gives the same bytes.
C18_Witness ==
    /\ JustEncoded
    /\ Len(self.metadata.extra.a) = 2
    /\ self.metadata.extra.a[1].k = <<107>>
    /\ SelfReordered.metadata.extra.a[1].k = <<98>>
    /\ SelfReordered # self
    /\ Len(Items(self)) = 2
    /\ Encoded(SelfReordered) = payload

(***************************************************************************)
(* C19.  Length prefixes and the length of the buffer.                     *)
(***************************************************************************)
RECURSIVE Sum(_)
Sum(ns) == IF ns = <<>> THEN 0 ELSE Head(ns) + Sum(Tail(ns))
\* The byte count of a text after UTF-8 encoding.
ByteCount(text) == Len(utf8_encode(text))
\* The bytes the claim counts for one entry and for one section.
EntrySize(entry) == 12 + ByteCount(entry.path) + ByteCount(entry.diff) + ByteCount(entry.notes)
SectionSize(section) == 4 + ByteCount(section.name) + 1 + 4 + Len(section.payload)
ItemSizes(record) ==
    IF record.cls = "Tablet"
    THEN [i \in 1..Len(record.entries) |-> EntrySize(record.entries[i])]
    ELSE [i \in 1..Len(record.sections) |-> SectionSize(record.sections[i])]
\* The length prefixes (and the kind byte) found at the place of item i,
\* which starts at byte offset at, are those of its fields.
EntryPrefixesExact(entry, at) ==
    /\ unpack_from(payload, at, 4) = ByteCount(entry.path)
    /\ unpack_from(payload, at + 4 + ByteCount(entry.path), 4) = ByteCount(entry.diff)
    /\ unpack_from(payload, at + 8 + ByteCount(entry.path) + ByteCount(entry.diff), 4)
          = ByteCount(entry.notes)
SectionPrefixesExact(section, at) ==
    /\ unpack_from(payload, at, 4) = ByteCount(section.name)
    /\ payload[at + 4 + ByteCount(section.name) + 1] = section.kind
    /\ unpack_from(payload, at + 4 + ByteCount(section.name) + 1, 4) = Len(section.payload)

\* C19: in the bytes to_bytes returns, every length prefix is the byte
\* count of the payload behind it, the count field is the number of
\* entries or sections, and nothing lies between the fields: the buffer is
\* 8 + 2 + 8 + 4 + |metadata| + 4 bytes long plus 12 + |path| + |diff| +
\* |notes| for every entry, or 4 + |name| + 1 + 4 + |payload| for every
\* section.
C19_ExactLengths ==
    JustEncoded =>
        LET blob == json_dumps(IF self.cls = "Tablet"
                               THEN TabletMetadata_to_dict(self.metadata)
                               ELSE CapsuleMetadata_to_dict(self.metadata))
            sizes == ItemSizes(self)
            first == 8 + 2 + 8 + 4 + ByteCount(blob) + 4
            start(i) == first + Sum(SubSeq(sizes, 1, i - 1))
        IN  /\ Len(payload) = first + Sum(sizes)
            /\ unpack_from(payload, 8 + 2 + 8, 4) = ByteCount(blob)
            /\ unpack_from(payload, first - 4, 4) = Len(Items(self))
            /\ \A i \in 1..Len(Items(self)) :
                  IF self.cls = "Tablet"
                  THEN EntryPrefixesExact(self.entries[i], start(i))
                  ELSE SectionPrefixesExact(self.sections[i], start(i))

\* A tablet was encoded whose second entry has a path of one character and
\* two bytes, behind a first entry of 13 bytes.
C19_Witness ==
    /\ JustEncoded /\ self.cls = "Tablet" /\ Len(self.entries) = 2
    /\ self.entries[2].path = <<233>> /\ ByteCount(self.entries[2].path) = 2
    /\ EntrySize(self.entries[1]) = 13
    /\ unpack_from(payload, Len(payload) - EntrySize(self.entries[2]), 4) = 2

(***************************************************************************)
(* C20.  The header timestamp through decode and encode.                   *)
(***************************************************************************)
\* C20: when a valid encoding is decoded and the record encoded again, the
\* header of the new bytes holds the epoch milliseconds the old header
\* held, so that further cycles leave created_at as it is.
C20_TimestampIdempotent ==
    (Done /\ Matching /\ edits \in {{}, {"timestamp"}} /\ Succeeded) =>
        unpack_from(Encoded(result), TimestampOffset, 8) = PayloadTimestamp

(***************************************************************************)
(* C21.  Sections that share a name.                                       *)
(***************************************************************************)
\* A capsule in which some name occurs more than once.
HasDuplicateNames(sections) ==
    \E i, j \in 1..Len(sections) : i # j /\ sections[i].name = sections[j].name

\* C21: a capsule that holds several sections of one name encodes, and its
\* bytes decode to a capsule that holds every one of them, each where it
\* was: none is refused, merged with another or moved.
C21_DuplicateNamesKept ==
    (/\ Done /\ edits = {} /\ self.cls = "ContextCapsule" /\ Matching
     /\ HasDuplicateNames(self.sections)) =>
        /\ Succeeded
        /\ result.sections = self.sections
        /\ HasDuplicateNames(result.sections)

\* A capsule with a BINARY section "a" before a TEXT section "a" came back
\* with both, the BINARY one first.
C21_Witness ==
    /\ Done /\ edits = {} /\ self.cls = "ContextCapsule" /\ Matching
    /\ Len(self.sections) = 2
    /\ self.sections[1].name = self.sections[2].name
    /\ self.sections[1].kind = BINARY /\ self.sections[2].kind = TEXT
    /\ Succeeded
    /\ result.sections[1].kind = BINARY /\ result.sections[2].kind = TEXT

(***************************************************************************)
(* C22.  The cursor of a decode.                                           *)
(***************************************************************************)
\* One block of a from_bytes call, of either class.
DecodeStep(f, bs, now) ==
    IF f.cls = "Tablet" THEN Tablet_from_bytes_step(f, bs, now)
    ELSE ContextCapsule_from_bytes_step(f, bs, now)
RECURSIVE CursorStaysInBounds(_, _, _, _)
\* From the locals f on, the call that ends with the locals end keeps its
\* cursor inside the buffer and never moves it back.
CursorStaysInBounds(f, end, bs, now) ==
    /\ f.cursor >= 0 /\ f.cursor <= Len(bs)
    /\ IF f.pc \in {"returned", "raised"} THEN f = end
       ELSE LET next == DecodeStep(f, bs, now)
            IN  f.cursor <= next.cursor /\ CursorStaysInBounds(next, end, bs, now)

\* C22: whatever the bytes, at every step of from_bytes the cursor lies
\* between 0 and the length of the buffer and is not less than it was, so
\* that every field read, which the cursor passes over, lies inside the
\* buffer; and a call that succeeds returns as many entries or sections as
\* the count field declares.
C22_CursorInBounds ==
    Done =>
        /\ CursorStaysInBounds(IF call.cls = "Tablet" THEN Tablet_from_bytes_enter
                               ELSE ContextCapsule_from_bytes_enter,
                               call, payload, CHOOSE now \in Clock : TRUE)
        /\ Succeeded =>
              /\ call.cursor >= MetadataEnd + 4
              /\ DeclaredCount(call) = unpack_from(payload, MetadataEnd, 4)
              /\ Len(Items(result)) = DeclaredCount(call)

\* A tablet of two entries cut right behind the first was decoded: the
\* call read one entry and stopped with the cursor at the end of the bytes.
C22_Witness ==
    /\ Done /\ edits = {"truncate"} /\ Matching /\ call.cls = "Tablet"
    /\ Len(self.entries) = 2 /\ call.entry_count = 2 /\ Len(call.entries) = 1
    /\ call.pc = "raised" /\ call.cursor = Len(payload)

(***************************************************************************)
(* C29.  Bytes behind the record.                                          *)
(***************************************************************************)
\* What the decoder of the record's class returns for its encoding alone.
DecodedAlone ==
    LET now == CHOOSE t \in Clock : TRUE
    IN  IF self.cls = "Tablet"
        THEN Tablet_from_bytes_result(Tablet_from_bytes(Encoded(self), now))
        ELSE ContextCapsule_from_bytes_result(ContextCapsule_from_bytes(Encoded(self), now))

\* C29: the encoding of a Tablet or Capsule followed by any bytes decodes,
\* to the record the encoding alone decodes to; the decoder stops behind
\* the last entry or section, before the end of the buffer.
C29_TrailingBytesIgnored ==
    (Done /\ edits = {"trailing"} /\ Matching) =>
        /\ Succeeded
        /\ result = DecodedAlone
        /\ call.cursor < Len(payload)

\* A tablet of two entries followed by five bytes was decoded, and both
\* entries came back.
C29_Witness ==
    /\ Done /\ edits = {"trailing"} /\ Matching /\ call.cls = "Tablet"
    /\ Len(self.entries) = 2 /\ call.cursor + 5 = Len(payload)
    /\ Succeeded /\ result.entries = self.entries

(***************************************************************************)
(* C30.  set_section, then get_section.                                    *)
(***************************************************************************)
\* C30: after set_section(s) with overwrite=True, get_section(s.name)
\* returns s, and get_section of every other name returns what it returned
\* before the call; and a capsule that was encoded and decoded answers
\* get_section as the capsule that was encoded.
C30_SetThenGet ==
    /\ SetSectionCalled(TRUE) =>
          /\ get_section(self.sections, last.arg.name) = last.arg
          /\ \A name \in SectionNames \ {last.arg.name} :
                get_section(self.sections, name) = get_section(last.before, name)
    /\ (Done /\ edits = {} /\ self.cls = "ContextCapsule" /\ Matching) =>
          /\ Succeeded
          /\ \A name \in SectionNames :
                get_section(result.sections, name) = get_section(self.sections, name)

\* A capsule with a TEXT "a" and a JSON "b" was given a BINARY "a":
\* get_section("a") now returns the BINARY one and get_section("b") the
\* JSON one, as before.
C30_Witness ==
    /\ SetSectionCalled(TRUE)
    /\ Len(last.before) = 2 /\ last.arg.kind = BINARY
    /\ get_section(last.before, <<97>>).kind = TEXT
    /\ get_section(self.sections, <<97>>) = last.arg
    /\ get_section(last.before, <<98>>) # None
    /\ get_section(self.sections, <<98>>) = get_section(last.before, <<98>>)

(***************************************************************************)
(* Python pieces of the programs around the formats.  Text is a sequence   *)
(* of code points, as everywhere in this module.                           *)
(***************************************************************************)
\* text.startswith(prefix)
startswith(text, prefix) ==
    Len(text) >= Len(prefix) /\ SubSeq(text, 1, Len(prefix)) = prefix

\* text.endswith(suffix)
endswith(text, suffix) ==
    Len(text) >= Len(suffix) /\ SubSeq(text, Len(text) - Len(suffix) + 1, Len(text)) = suffix

\* xs[:n] of a str or a list
UpTo(xs, n) == IF Len(xs) <= n THEN xs ELSE SubSeq(xs, 1, n)

\* str(x), as an f-string formats a decoded JSON value.  (Lists and dicts
\* are outside the alphabet: their repr is not modelled.)
py_str(x) ==
    CASE x.t = "str" -> x.s
      [] x.t = "num" -> x.s
      [] x.t = "null" -> <<78, 111, 110, 101>>
      [] x.t = "true" -> <<84, 114, 117, 101>>
      [] x.t = "false" -> <<70, 97, 108, 115, 101>>

\* One hexadecimal digit, lower case.
HexDigit(n) == IF n < 10 THEN 48 + n ELSE 87 + n

\* \uXXXX
json_u_escape(c) ==
    <<92, 117, HexDigit((c \div 4096) % 16), HexDigit((c \div 256) % 16),
      HexDigit((c \div 16) % 16), HexDigit(c % 16)>>

\* One character of a string under ensure_ascii=True: the short escapes,
\* \uXXXX for every other character outside ' '..'~', a surrogate pair
\* above U+FFFF.
json_escape_ascii_char(c) ==
    IF c \in {34, 92, 8, 9, 10, 12, 13} THEN json_escape_char(c)
    ELSE IF c >= 32 /\ c <= 126 THEN <<c>>
    ELSE IF c < 65536 THEN json_u_escape(c)
    ELSE json_u_escape(55296 + ((c - 65536) \div 1024))
         \o json_u_escape(56320 + ((c - 65536) % 1024))

json_quote_ascii(s) ==
    <<34>> \o Concat([i \in 1..Len(s) |-> json_escape_ascii_char(s[i])]) \o <<34>>

RECURSIVE json_dumps_default(_)
RECURSIVE json_dumps_default_items(_)
RECURSIVE json_dumps_default_members(_)
json_dumps_default_items(xs) ==
    IF xs = <<>> THEN <<>>
    ELSE IF Len(xs) = 1 THEN json_dumps_default(xs[1])
    ELSE json_dumps_default(xs[1]) \o <<44, 32>> \o json_dumps_default_items(Tail(xs))

json_dumps_default_members(ps) ==
    IF ps = <<>> THEN <<>>
    ELSE LET one == json_quote_ascii(ps[1].k) \o <<58, 32>> \o json_dumps_default(ps[1].v)
         IN  IF Len(ps) = 1 THEN one
             ELSE one \o <<44, 32>> \o json_dumps_default_members(Tail(ps))

\* json.dumps(value): ASCII only, the keys in insertion order.
json_dumps_default(x) ==
    CASE x.t = "null"  -> <<110, 117, 108, 108>>
      [] x.t = "true"  -> <<116, 114, 117, 101>>
      [] x.t = "false" -> <<102, 97, 108, 115, 101>>
      [] x.t = "num"   -> x.s
      [] x.t = "str"   -> json_quote_ascii(x.s)
      [] x.t = "arr"   -> <<91>> \o json_dumps_default_items(x.a) \o <<93>>
      [] x.t = "obj"   -> <<123>> \o json_dumps_default_members(x.a) \o <<125>>

\* datetime.now() at the second `seconds` of the clock: naive local time.
\* The host's zone is UTC, and the clock ticks in whole seconds.
datetime_now(seconds) == Naive(seconds * MicrosPerSecond)

\* datetime.now(timezone.utc)
datetime_now_utc(seconds) == Utc(seconds * MicrosPerSecond)

\* The fields of the clock time of dt; the dates of the model lie on
\* 1970-01-01.
HourOf(dt) == TwoDigits((dt.us \div MicrosPerSecond) \div 3600)
MinuteOf(dt) == TwoDigits(((dt.us \div MicrosPerSecond) \div 60) % 60)
SecondOf(dt) == TwoDigits((dt.us \div MicrosPerSecond) % 60)

\* dt.strftime('%Y%m%d_%H%M%S')
strftime_Ymd_HMS(dt) == <<49, 57, 55, 48, 48, 49, 48, 49, 95>> \o HourOf(dt) \o MinuteOf(dt) \o SecondOf(dt)

\* dt.strftime('%Y-%m-%d %H:%M')
strftime_Y_m_d_H_M(dt) == <<49, 57, 55, 48, 45, 48, 49, 45, 48, 49, 32>> \o HourOf(dt) \o <<58>> \o MinuteOf(dt)

\* dt.strftime('%Y-%m-%d %H:%M:%S')
strftime_Y_m_d_H_M_S(dt) == strftime_Y_m_d_H_M(dt) \o <<58>> \o SecondOf(dt)

\* dt.strftime('%Y-%m-%d')
strftime_Y_m_d(dt) == <<49, 57, 55, 48, 45, 48, 49, 45, 48, 49>>

\* dt.strftime('%Y%m%d')
strftime_Ymd(dt) == <<49, 57, 55, 48, 48, 49, 48, 49>>

\* The whole days a datetime lies from the day of its microseconds: 0 for
\* the datetimes of the formats, the days taken off for a cutoff.  (The
\* microseconds of thirty days do not fit TLC's integers.)
DaysOf(dt) == IF "days" \in DOMAIN dt THEN dt.days ELSE 0

\* dt - timedelta(days=days)
minus_days(dt, days) == [us |-> dt.us, tzinfo |-> dt.tzinfo, days |-> DaysOf(dt) - days]

\* a < b of two datetimes: [err, val].  Python refuses to order a naive
\* and an aware one.
datetime_lt(a, b) ==
    IF a.tzinfo # b.tzinfo
    THEN [err |-> "TypeError: can't compare offset-naive and offset-aware datetimes",
          val |-> FALSE]
    ELSE [err |-> NoError,
          val |-> \/ DaysOf(a) < DaysOf(b)
                  \/ DaysOf(a) = DaysOf(b) /\ a.us < b.us]

\* TabletMetadata(title=..., summary=..., author=..., tags=...): the other
\* fields take the defaults of the dataclass, created_at the time of the
\* call.
TabletMetadata(title, summary, author, tags, seconds) ==
    [title |-> title, summary |-> summary, author |-> author,
     created_at |-> datetime_now_utc(seconds),
     tags |-> JArr([i \in 1..Len(tags) |-> JStr(tags[i])]),
     revision |-> JNull, extra |-> JObj(<<>>)]

\* Tablet.read(path) in the directory dir: the locals of from_bytes as it
\* ends over the bytes of the file; read_bytes raises when there is none.
Tablet_read(dir, path, seconds) ==
    IF path \notin DOMAIN dir
    THEN Raise(Tablet_from_bytes_enter, "FileNotFoundError: No such file or directory")
    ELSE Tablet_from_bytes(dir[path], datetime_now_utc(seconds))

\* path.write_bytes(data)
write_bytes(dir, path, data) ==
    [n \in DOMAIN dir \cup {path} |-> IF n = path THEN data ELSE dir[n]]

\* Tablet.write(path)
Tablet_write(dir, path, tablet) == write_bytes(dir, path, Tablet_to_bytes(tablet))

\* path.unlink() of every path in gone
unlink(dir, gone) == [n \in DOMAIN dir \ gone |-> dir[n]]

\* sessions_dir.glob('*.auratab')
glob_auratab(dir) == {n \in DOMAIN dir : endswith(n, <<46, 97, 117, 114, 97, 116, 97, 98>>)}

(***************************************************************************)
(* storage_limits.py                                                       *)
(***************************************************************************)
MAX_PERSISTENT_TABLET_SIZE_MB == 8
MAX_PERSISTENT_SIZE_BYTES == MAX_PERSISTENT_TABLET_SIZE_MB * 1024 * 1024
MAX_ENTRIES_PER_TABLET == 100
MAX_ENTRY_SIZE_BYTES == 1000

RECURSIVE TotalSize(_, _)
\* sum(f.stat().st_size for f in files)
TotalSize(dir, files) ==
    IF files = {} THEN 0
    ELSE LET f == CHOOSE n \in files : TRUE
         IN  Len(dir[f]) + TotalSize(dir, files \ {f})

\* check_tablet_size(tablet_path)["ok"]: the warnings below the limit
\* change only the message.
check_tablet_size(dir, tablet_path) ==
    IF tablet_path \notin DOMAIN dir THEN TRUE
    ELSE ~(Len(dir[tablet_path]) > MAX_PERSISTENT_SIZE_BYTES)

\* check_total_storage()["ok"]: total_mb > 8 is read on the bytes, the
\* division by 2^20 being exact.
check_total_storage(dir) ==
    ~(TotalSize(dir, glob_auratab(dir)) > MAX_PERSISTENT_SIZE_BYTES)

(***************************************************************************)
(* native_host.py.  A message is the list of [k, v] pairs of the decoded   *)
(* JSON object.  A handler is an operator from the directory, the message  *)
(* and the clock to [sessions, reply, tablet_path, added]: the directory   *)
(* as the handler leaves it, the dict it returns, the file it wrote (None  *)
(* when it wrote none) and the entries it passed to add_entry.             *)
(***************************************************************************)
Handler(dir, reply, tablet_path, added) ==
    [sessions |-> dir, reply |-> reply, tablet_path |-> tablet_path, added |-> added]

\* return {'success': False, 'error': str(e)}
Failure(dir, error) == Handler(dir, [success |-> FALSE, error |-> error], None, <<>>)

\* str(self.sessions_dir / name)
SessionsPath(name) == <<115, 101, 115, 115, 105, 111, 110, 115, 47>> \o name

\* The tablet capture_conversation starts when it finds none, or a full
\* one (continued).
CapturedTablet(context, continued, seconds) ==
    Tablet(TabletMetadata(
               JStr(<<67, 104, 97, 116, 71, 80, 84, 32, 83, 101, 115, 115, 105, 111, 110, 32>> \o strftime_Y_m_d_H_M(datetime_now(seconds))
                    \o (IF continued THEN <<32, 40, 99, 111, 110, 116, 105, 110, 117, 101, 100, 41>> ELSE <<>>)),
               JStr(IF continued THEN <<65, 117, 116, 111, 45, 99, 97, 112, 116, 117, 114, 101, 100, 32, 67, 104, 97, 116, 71, 80, 84, 32, 99, 111, 110, 118, 101, 114, 115, 97, 116, 105, 111, 110, 32, 40, 99, 111, 110, 116, 105, 110, 117, 97, 116, 105, 111, 110, 41>>
                    ELSE <<65, 117, 116, 111, 45, 99, 97, 112, 116, 117, 114, 101, 100, 32, 67, 104, 97, 116, 71, 80, 84, 32, 99, 111, 110, 118, 101, 114, 115, 97, 116, 105, 111, 110>>),
               DictGet(context.a, <<117, 115, 101, 114>>, JStr(<<117, 110, 107, 110, 111, 119, 110>>)),
               <<<<99, 104, 97, 116, 103, 112, 116>>, <<99, 111, 110, 118, 101, 114, 115, 97, 116, 105, 111, 110>>, <<97, 117, 116, 111, 45, 99, 97, 112, 116, 117, 114, 101, 100>>, <<116, 101, 109, 112, 111, 114, 97, 114, 121>>>>,
               seconds),
           <<>>)

\* The entry of one memory: [err, entry].  memory.get raises on anything
\* but a dict, len(content) on anything without a length.
memory_entry(memory) ==
    LET content == DictGet(memory.a, <<99, 111, 110, 116, 101, 110, 116>>, JStr(<<>>))
        cut == IF Len(content.s) > MAX_ENTRY_SIZE_BYTES
               THEN SubSeq(content.s, 1, MAX_ENTRY_SIZE_BYTES) \o <<46, 46, 46, 91, 116, 114, 117, 110, 99, 97, 116, 101, 100, 93>>
               ELSE content.s
        role == DictGet(memory.a, <<114, 111, 108, 101>>, JStr(<<117, 110, 107, 110, 111, 119, 110>>))
        type == DictGet(memory.a, <<116, 121, 112, 101>>, JStr(<<109, 101, 109, 111, 114, 121>>))
    IN  IF memory.t # "obj"
        THEN [err |-> "AttributeError: object has no attribute 'get'", entry |-> None]
        ELSE IF content.t # "str"
        THEN [err |-> "TypeError: object has no len()", entry |-> None]
        ELSE [err |-> NoError,
              entry |-> TabletEntry(<<99, 111, 110, 116, 101, 120, 116, 117, 97, 108, 95, 109, 101, 109, 111, 114, 121>>, cut,
                                    <<82, 111, 108, 101, 58, 32>> \o py_str(role) \o <<44, 32, 84, 121, 112, 101, 58, 32>> \o py_str(type))]

\* The entry of the whole turn, when the message holds no memories.
conversation_entry(user_message, ai_response, context) ==
    LET conversation_text == <<85, 83, 69, 82, 58, 32>> \o py_str(user_message) \o <<10, 10, 65, 83, 83, 73, 83, 84, 65, 78, 84, 58, 32>>
                             \o py_str(ai_response)
        cut == IF Len(conversation_text) > MAX_ENTRY_SIZE_BYTES
               THEN SubSeq(conversation_text, 1, MAX_ENTRY_SIZE_BYTES) \o <<46, 46, 46, 91, 116, 114, 117, 110, 99, 97, 116, 101, 100, 93>>
               ELSE conversation_text
    IN  TabletEntry(<<99, 104, 97, 116, 103, 112, 116, 95, 99, 111, 110, 118, 101, 114, 115, 97, 116, 105, 111, 110>>, cut, json_dumps_default(context))

\* capture_conversation from the point where the tablet file has been looked
\* for: read holds the locals of Tablet.read as it ended, and counts only
\* when the file exists.
capture_conversation_found(dir, message, seconds, read) ==
    LET user_message == DictGet(message, <<117, 115, 101, 114, 77, 101, 115, 115, 97, 103, 101>>, JStr(<<>>))
        ai_response == DictGet(message, <<97, 105, 82, 101, 115, 112, 111, 110, 115, 101>>, JStr(<<>>))
        context == DictGet(message, <<99, 111, 110, 116, 101, 120, 116>>, JObj(<<>>))
        memories == DictGet(message, <<109, 101, 109, 111, 114, 105, 101, 115>>, JArr(<<>>))
        timestamp == strftime_Ymd_HMS(datetime_now(seconds))
        first_path == <<99, 111, 110, 118, 101, 114, 115, 97, 116, 105, 111, 110, 95>> \o timestamp \o <<46, 97, 117, 114, 97, 116, 97, 98>>
        exists == first_path \in DOMAIN dir
        found_tablet == IF exists THEN Tablet_from_bytes_result(read)
                        ELSE CapturedTablet(context, FALSE, seconds)
        full == Len(found_tablet.entries) >= MAX_ENTRIES_PER_TABLET
        tablet_path == IF full THEN <<99, 111, 110, 118, 101, 114, 115, 97, 116, 105, 111, 110, 95>> \o timestamp \o <<95, 99, 111, 110, 116, 46, 97, 117, 114, 97, 116, 97, 98>>
                       ELSE first_path
        tablet == IF full THEN CapturedTablet(context, TRUE, seconds) ELSE found_tablet
        taken == UpTo(memories.a, 10)
        made == [i \in 1..Len(taken) |-> memory_entry(taken[i])]
        bad == {i \in 1..Len(taken) : made[i].err # NoError}
        added == IF Truthy(memories)
                 THEN [i \in 1..Len(taken) |-> made[i].entry]
                 ELSE <<conversation_entry(user_message, ai_response, context)>>
    IN  IF ~check_total_storage(dir)
        THEN Handler(dir, [success |-> FALSE, error |-> "STORAGE_FULL"], None, <<>>)
        ELSE IF exists /\ read.pc = "raised" THEN Failure(dir, read.err)
        ELSE IF ~check_tablet_size(dir, first_path)
        THEN Handler(dir, [success |-> FALSE, error |-> "TABLET_TOO_LARGE"], None, <<>>)
        ELSE IF Truthy(memories) /\ bad # {}
        THEN Failure(dir, made[CHOOSE i \in bad : \A j \in bad : i <= j].err)
        ELSE Handler(Tablet_write(dir, tablet_path, [tablet EXCEPT !.entries = @ \o added]),
                     [success |-> TRUE, tablet_path |-> SessionsPath(tablet_path)],
                     tablet_path, added)

\* NativeMessagingHost.capture_conversation(message).  (memories is a list
\* in every message of the model, context a dict.)
capture_conversation(dir, message, seconds) ==
    capture_conversation_found(
        dir, message, seconds,
        Tablet_read(dir, <<99, 111, 110, 118, 101, 114, 115, 97, 116, 105, 111, 110, 95>> \o strftime_Ymd_HMS(datetime_now(seconds))
                             \o <<46, 97, 117, 114, 97, 116, 97, 98>>,
                    seconds))

\* NativeMessagingHost.create_session(message)
create_session(dir, message, seconds) ==
    LET title == DictGet(message, <<116, 105, 116, 108, 101>>, JStr(<<78, 101, 119, 32, 83, 101, 115, 115, 105, 111, 110>>))
        summary == DictGet(message, <<115, 117, 109, 109, 97, 114, 121>>, JStr(<<>>))
        timestamp == strftime_Ymd_HMS(datetime_now(seconds))
        metadata == TabletMetadata(title, summary, JNull,
                                   <<<<115, 101, 115, 115, 105, 111, 110>>, <<98, 114, 111, 119, 115, 101, 114>>, <<115, 97, 118, 101, 100>>>>, seconds)
        tablet_path == <<115, 101, 115, 115, 105, 111, 110, 95>> \o timestamp \o <<46, 97, 117, 114, 97, 116, 97, 98>>
    IN  Handler(Tablet_write(dir, tablet_path, Tablet(metadata, <<>>)),
                [success |-> TRUE, tablet_path |-> SessionsPath(tablet_path)],
                tablet_path, <<>>)

\* The file of ./sessions a path of a message names; the files elsewhere
\* are not modelled.
SessionsName(tablet_path) ==
    IF tablet_path.t = "str" /\ startswith(tablet_path.s, <<115, 101, 115, 115, 105, 111, 110, 115, 47>>)
    THEN SubSeq(tablet_path.s, Len(<<115, 101, 115, 115, 105, 111, 110, 115, 47>>) + 1, Len(tablet_path.s))
    ELSE <<>>

\* add_tablet_entry from the point where the tablet has been read.
add_tablet_entry_read(dir, message, read) ==
    LET tablet_path == DictGet(message, <<112, 97, 116, 104>>, JNull)
        entry_data == DictGet(message, <<101, 110, 116, 114, 121>>, JObj(<<>>))
        entry == TabletEntry(py_str(DictGet(entry_data.a, <<112, 97, 116, 104>>, JStr(<<99, 111, 110, 118, 101, 114, 115, 97, 116, 105, 111, 110>>))),
                             py_str(DictGet(entry_data.a, <<100, 105, 102, 102>>, JStr(<<>>))),
                             py_str(DictGet(entry_data.a, <<110, 111, 116, 101, 115>>, JStr(<<>>))))
    IN  IF ~Truthy(tablet_path)
        THEN Handler(dir, [success |-> FALSE, error |-> "No tablet path provided"], None, <<>>)
        ELSE IF read.pc = "raised" THEN Failure(dir, read.err)
        ELSE Handler(Tablet_write(dir, SessionsName(tablet_path),
                                  [cls |-> "Tablet", metadata |-> read.metadata,
                                   entries |-> Append(read.entries, entry)]),
                     [success |-> TRUE, message |-> "Entry added"],
                     SessionsName(tablet_path), <<entry>>)

\* NativeMessagingHost.add_tablet_entry(message)
add_tablet_entry(dir, message, seconds) ==
    add_tablet_entry_read(dir, message,
                          Tablet_read(dir, SessionsName(DictGet(message, <<112, 97, 116, 104>>, JNull)),
                                      seconds))

\* x in tablet.metadata.tags
InTags(tag, tags) == \E i \in 1..Len(tags.a) : tags.a[i] = JStr(tag)

\* A round of the loop of cleanup_old_sessions that removes whatever file
\* it can read.
cleanup_round_any(tablet_file, read, cutoff_date) ==
    IF read.pc = "raised" THEN "error" ELSE "removed"

\* One round of the loop of cleanup_old_sessions over tablet_file, read
\* being the locals of Tablet.read as it ended: "removed" when the round
\* unlinks the file, "preserved" when it counts it as kept, "error" when
\* the round ends in the except branch.
cleanup_round(tablet_file, read, cutoff_date) ==
    LET tags == read.metadata.tags
        is_auto == \/ InTags(<<97, 117, 116, 111, 45, 99, 97, 112, 116, 117, 114, 101, 100>>, tags)
                   \/ InTags(<<116, 101, 109, 112, 111, 114, 97, 114, 121>>, tags)
                   \/ startswith(tablet_file, <<97, 117, 116, 111, 95>>)
        older == datetime_lt(read.metadata.created_at, cutoff_date)
    IN  IF read.pc = "raised" THEN "error"
        ELSE IF InTags(<<115, 97, 118, 101, 100>>, tags) THEN "preserved"
        ELSE IF ~is_auto THEN "preserved"
        ELSE IF older.err # NoError THEN "error"
        ELSE IF older.val THEN "removed"
        ELSE "preserved"

\* The end of cleanup_old_sessions: verdict maps every file of the glob to
\* what its round did.
cleanup_counted(dir, verdict) ==
    Handler(unlink(dir, {f \in DOMAIN verdict : verdict[f] = "removed"}),
            [success |-> TRUE,
             removed |-> Cardinality({f \in DOMAIN verdict : verdict[f] = "removed"}),
             preserved |-> Cardinality({f \in DOMAIN verdict : verdict[f] = "preserved"})],
            None, <<>>)

\* NativeMessagingHost.cleanup_old_sessions(days_old): days_old an int.
cleanup_old_sessions(dir, days_old, seconds) ==
    cleanup_counted(dir,
                    [f \in glob_auratab(dir) |->
                        cleanup_round(f, Tablet_read(dir, f, seconds),
                                      minus_days(datetime_now(seconds), days_old))])

(***************************************************************************)
(* auto_session_tracker.py                                                 *)
(***************************************************************************)
\* The tablet AutoSessionTracker.__init__ creates; USER is not set in the
\* environment of the model.
AutoSessionTracker_tablet(seconds) ==
    Tablet(TabletMetadata(
               JStr(<<65, 117, 116, 111, 45, 116, 114, 97, 99, 107, 101, 100, 32, 83, 101, 115, 115, 105, 111, 110, 32>> \o strftime_Y_m_d_H_M_S(datetime_now(seconds))),
               JStr(<<65, 117, 116, 111, 109, 97, 116, 105, 99, 97, 108, 108, 121, 32, 116, 114, 97, 99, 107, 101, 100, 32, 99, 111, 100, 105, 110, 103, 32, 115, 101, 115, 115, 105, 111, 110>>),
               JStr(<<117, 110, 107, 110, 111, 119, 110>>),
               <<<<97, 117, 116, 111, 45, 115, 101, 115, 115, 105, 111, 110>>, <<116, 114, 97, 99, 107, 105, 110, 103>>>>,
               seconds),
           <<>>)

\* AutoSessionTracker._save_on_exit(): the directory it leaves.
save_on_exit(dir, tablet, seconds) ==
    IF Len(tablet.entries) = 0 THEN dir
    ELSE Tablet_write(dir,
                      <<97, 117, 116, 111, 95, 115, 101, 115, 115, 105, 111, 110, 95>> \o strftime_Ymd_HMS(datetime_now(seconds))
                          \o <<46, 97, 117, 114, 97, 116, 97, 98>>,
                      tablet)

(***************************************************************************)
(* The native messaging host at work: the messages the browser sends, the  *)
(* files other programs leave in ./sessions, and the clock.                *)
(***************************************************************************)
MaxCalls == 3
MaxClock == 1

\* captureConversation messages: an empty one, and one with a memory and
\* a user.
HostCaptures ==
    {<<>>,
     <<Pair(<<109, 101, 109, 111, 114, 105, 101, 115>>, JArr(<<JObj(<<Pair(<<99, 111, 110, 116, 101, 110, 116>>, JStr(<<109>>)),
                                        Pair(<<114, 111, 108, 101>>, JStr(<<117, 115, 101, 114>>))>>)>>)),
       Pair(<<99, 111, 110, 116, 101, 120, 116>>, JObj(<<Pair(<<117, 115, 101, 114>>, JStr(<<117>>))>>))>>}

\* createSession messages
SessionMessages == {<<Pair(<<116, 105, 116, 108, 101>>, JStr(<<84>>))>>}

\* addTabletEntry messages: one for a session of the first second, one
\* without a path.
EntryMessages ==
    {<<Pair(<<112, 97, 116, 104>>, JStr(<<115, 101, 115, 115, 105, 111, 110, 115, 47, 115, 101, 115, 115, 105, 111, 110, 95, 49, 57, 55, 48, 48, 49, 48, 49, 95, 48, 48, 48, 48, 48, 48, 46, 97, 117, 114, 97, 116, 97, 98>>)),
       Pair(<<101, 110, 116, 114, 121>>, JObj(<<Pair(<<100, 105, 102, 102>>, JStr(<<43, 49>>))>>))>>,
     <<Pair(<<101, 110, 116, 114, 121>>, JObj(<<>>))>>}

\* daysOld of cleanupOldSessions: the default, and none.
DaysOld == {30, 0}

\* What other programs write into ./sessions at the second `seconds`: the
\* tablet of an auto-tracked session with one entry, a tablet without
\* tags, one tagged both saved and auto-captured, and a file that is no
\* tablet.
OtherFiles(seconds) ==
    LET tracked == [AutoSessionTracker_tablet(seconds)
                        EXCEPT !.entries = <<TabletEntry(<<97, 46, 112, 121>>, <<43, 49>>, <<>>)>>]
        plain(tags) == Tablet(TabletMetadata(JStr(<<78>>), JStr(<<>>), JNull, tags, seconds),
                              <<>>)
    IN  {[name |-> <<97, 117, 116, 111, 95, 115, 101, 115, 115, 105, 111, 110, 95, 49, 57, 55, 48, 48, 49, 48, 49, 95, 48, 48, 48, 48, 48, 48, 46, 97, 117, 114, 97, 116, 97, 98>>, data |-> Tablet_to_bytes(tracked)],
         [name |-> <<110, 111, 116, 101, 115, 46, 97, 117, 114, 97, 116, 97, 98>>, data |-> Tablet_to_bytes(plain(<<>>))],
         [name |-> <<107, 101, 112, 116, 46, 97, 117, 114, 97, 116, 97, 98>>,
          data |-> Tablet_to_bytes(plain(<<<<115, 97, 118, 101, 100>>, <<97, 117, 116, 111, 45, 99, 97, 112, 116, 117, 114, 101, 100>>>>))],
         [name |-> <<97, 117, 116, 111, 95, 98, 114, 111, 107, 101, 110, 46, 97, 117, 114, 97, 116, 97, 98>>, data |-> <<65, 85, 82, 65>>]}

\* The number of handler calls made so far.
CallsMade == IF handled = None THEN 0 ELSE handled.nth

Handled(action, message, did) ==
    [action |-> action, message |-> message, before |-> sessions, at |-> clock,
     did |-> did, nth |-> CallsMade + 1]

\* handle_message({'action': 'captureConversation', ...})
NativeMessagingHost_capture_conversation(message) ==
    /\ CallsMade < MaxCalls
    /\ handled' = Handled("captureConversation", message,
                          capture_conversation(sessions, message, clock))
    /\ sessions' = handled'.did.sessions
    /\ UNCHANGED <<clock, state_file, tracker, manager>>
    /\ UNCHANGED vars

\* handle_message({'action': 'createSession', ...})
NativeMessagingHost_create_session(message) ==
    /\ CallsMade < MaxCalls
    /\ handled' = Handled("createSession", message, create_session(sessions, message, clock))
    /\ sessions' = handled'.did.sessions
    /\ UNCHANGED <<clock, state_file, tracker, manager>>
    /\ UNCHANGED vars

\* handle_message({'action': 'addTabletEntry', ...})
NativeMessagingHost_add_tablet_entry(message) ==
    /\ CallsMade < MaxCalls
    /\ handled' = Handled("addTabletEntry", message,
                          add_tablet_entry(sessions, message, clock))
    /\ sessions' = handled'.did.sessions
    /\ UNCHANGED <<clock, state_file, tracker, manager>>
    /\ UNCHANGED vars

\* handle_message({'action': 'cleanupOldSessions', 'daysOld': days_old})
NativeMessagingHost_cleanup_old_sessions(days_old) ==
    /\ CallsMade < MaxCalls
    /\ handled' = Handled("cleanupOldSessions", days_old,
                          cleanup_old_sessions(sessions, days_old, clock))
    /\ sessions' = handled'.did.sessions
    /\ UNCHANGED <<clock, state_file, tracker, manager>>
    /\ UNCHANGED vars

\* Another program writes a file into ./sessions.
OtherWriter(file) ==
    /\ CallsMade < MaxCalls
    /\ handled' = Handled("write", file, Handler(write_bytes(sessions, file.name, file.data),
                                                 None, file.name, <<>>))
    /\ sessions' = handled'.did.sessions
    /\ UNCHANGED <<clock, state_file, tracker, manager>>
    /\ UNCHANGED vars

\* A second passes.
Tick ==
    /\ clock < MaxClock
    /\ clock' = clock + 1
    /\ UNCHANGED <<sessions, state_file, tracker, manager, handled>>
    /\ UNCHANGED vars

\* No record is being built, encoded or decoded.
CodecIdle ==
    /\ self = None /\ payload = <<>> /\ edits = {} /\ pc = "idle"
    /\ call = None /\ result = None /\ last = None /\ found = None

\* NativeMessagingHost() in a new ./sessions: the cleanup of __init__
\* finds no file.
HostInit ==
    /\ CodecIdle
    /\ sessions = <<>> /\ clock = 0 /\ state_file = None
    /\ tracker = None /\ manager = None /\ handled = None

HostNext ==
    \/ \E message \in HostCaptures : NativeMessagingHost_capture_conversation(message)
    \/ \E message \in SessionMessages : NativeMessagingHost_create_session(message)
    \/ \E message \in EntryMessages : NativeMessagingHost_add_tablet_entry(message)
    \/ \E days_old \in DaysOld : NativeMessagingHost_cleanup_old_sessions(days_old)
    \/ \E file \in OtherFiles(clock) : OtherWriter(file)
    \/ Tick

HostSpec == HostInit /\ [][HostNext]_<<vars, appVars>>

(***************************************************************************)
(* Captures into tablets that hold entries already.                        *)
(***************************************************************************)
\* n times the character c
Repeat(c, n) == [i \in 1..n |-> c]

\* The entries a conversation tablet may hold before a capture: some way
\* below the limit, one below it, and at it.
PriorEntryCounts ==
    {MAX_ENTRIES_PER_TABLET - 5, MAX_ENTRIES_PER_TABLET - 1, MAX_ENTRIES_PER_TABLET}

\* ./sessions before the captures: empty, or with the conversation tablet
\* of the first second as capture_conversation starts it, grown by
\* add_tablet_entry messages with an empty entry.
PriorSessions ==
    {<<>>} \cup
    {Tablet_write(<<>>, <<99, 111, 110, 118, 101, 114, 115, 97, 116, 105, 111, 110, 95, 49, 57, 55, 48, 48, 49, 48, 49, 95, 48, 48, 48, 48, 48, 48, 46, 97, 117, 114, 97, 116, 97, 98>>,
                  [CapturedTablet(JObj(<<>>), FALSE, 0)
                      EXCEPT !.entries = [i \in 1..n |-> TabletEntry(<<99, 111, 110, 118, 101, 114, 115, 97, 116, 105, 111, 110>>, <<>>, <<>>)]])
        : n \in PriorEntryCounts}

\* captureConversation messages: a short turn; a turn whose text passes
\* the limit; eleven memories, the first one character over the limit and
\* the second at it; one short memory.
CaptureMessages ==
    {<<Pair(<<117, 115, 101, 114, 77, 101, 115, 115, 97, 103, 101>>, JStr(<<104, 105>>)), Pair(<<97, 105, 82, 101, 115, 112, 111, 110, 115, 101>>, JStr(<<121, 111>>))>>,
     <<Pair(<<117, 115, 101, 114, 77, 101, 115, 115, 97, 103, 101>>, JStr(Repeat(117, MAX_ENTRY_SIZE_BYTES)))>>,
     <<Pair(<<109, 101, 109, 111, 114, 105, 101, 115>>,
            JArr([i \in 1..11 |->
                    JObj(<<Pair(<<99, 111, 110, 116, 101, 110, 116>>,
                                JStr(IF i = 1 THEN Repeat(97, MAX_ENTRY_SIZE_BYTES + 1)
                                     ELSE IF i = 2 THEN Repeat(98, MAX_ENTRY_SIZE_BYTES)
                                     ELSE <<109>>))>>)]))>>,
     <<Pair(<<109, 101, 109, 111, 114, 105, 101, 115>>, JArr(<<JObj(<<Pair(<<99, 111, 110, 116, 101, 110, 116>>, JStr(<<109>>))>>)>>))>>}

CaptureInit ==
    /\ CodecIdle
    /\ sessions \in PriorSessions
    /\ clock = 0 /\ state_file = None
    /\ tracker = None /\ manager = None /\ handled = None

CaptureNext ==
    \/ \E message \in CaptureMessages : NativeMessagingHost_capture_conversation(message)
    \/ Tick

CaptureSpec == CaptureInit /\ [][CaptureNext]_<<vars, appVars>>

(***************************************************************************)
(* The vocabulary of the properties of the host.                           *)
(***************************************************************************)
\* The handler called last.
HandledAction(action) == handled # None /\ handled.action = action

\* What Tablet.read makes of a file the last handler found or left.
ReadOf(dir, name) == Tablet_from_bytes(dir[name], datetime_now_utc(0))

\* The instant of a before that of b, whatever their tzinfo.
Earlier(a, b) == DaysOf(a) < DaysOf(b) \/ (DaysOf(a) = DaysOf(b) /\ a.us < b.us)

\* The cutoff of the cleanup handled last.
CutoffDate == minus_days(datetime_now(handled.at), handled.message)

\* What the cleanup is to look at in a file it can read.
TaggedSaved(read) == InTags(<<115, 97, 118, 101, 100>>, read.metadata.tags)
AutoCaptured(name, read) ==
    \/ InTags(<<97, 117, 116, 111, 45, 99, 97, 112, 116, 117, 114, 101, 100>>, read.metadata.tags)
    \/ InTags(<<116, 101, 109, 112, 111, 114, 97, 114, 121>>, read.metadata.tags)
    \/ startswith(name, <<97, 117, 116, 111, 95>>)

\* The file is there after the last handler as it was before.
Kept(name) == name \in DOMAIN sessions /\ sessions[name] = handled.before[name]

(***************************************************************************)
(* C23.  What the cleanup keeps.                                           *)
(***************************************************************************)
\* C23: cleanup_old_sessions, whatever the files of ./sessions and
\* whatever days_old, deletes no tablet tagged 'saved', no tablet that is
\* not auto-captured (neither tagged 'auto-captured' or 'temporary' nor
\* named auto_...), and no tablet whose created_at is not before the cutoff.
C23_CleanupPreserves ==
    HandledAction("cleanupOldSessions") =>
        \A name \in DOMAIN handled.before :
            LET read == ReadOf(handled.before, name)
            IN  (/\ read.pc = "returned"
                 /\ \/ TaggedSaved(read)
                    \/ ~AutoCaptured(name, read)
                    \/ ~Earlier(read.metadata.created_at, CutoffDate))
                => Kept(name)

\* A cleanup with days_old = 0 found a session created a second before,
\* tagged 'saved', and an auto-captured conversation of the second of the
\* cleanup: both are still there.
C23_Witness ==
    /\ HandledAction("cleanupOldSessions") /\ handled.message = 0 /\ handled.at = 1
    /\ {<<115, 101, 115, 115, 105, 111, 110, 95, 49, 57, 55, 48, 48, 49, 48, 49, 95, 48, 48, 48, 48, 48, 48, 46, 97, 117, 114, 97, 116, 97, 98>>, <<99, 111, 110, 118, 101, 114, 115, 97, 116, 105, 111, 110, 95, 49, 57, 55, 48, 48, 49, 48, 49, 95, 48, 48, 48, 48, 48, 49, 46, 97, 117, 114, 97, 116, 97, 98>>}
           \subseteq DOMAIN handled.before
    /\ LET session == ReadOf(handled.before, <<115, 101, 115, 115, 105, 111, 110, 95, 49, 57, 55, 48, 48, 49, 48, 49, 95, 48, 48, 48, 48, 48, 48, 46, 97, 117, 114, 97, 116, 97, 98>>)
           conversation == ReadOf(handled.before, <<99, 111, 110, 118, 101, 114, 115, 97, 116, 105, 111, 110, 95, 49, 57, 55, 48, 48, 49, 48, 49, 95, 48, 48, 48, 48, 48, 49, 46, 97, 117, 114, 97, 116, 97, 98>>)
       IN  /\ TaggedSaved(session)
           /\ Earlier(session.metadata.created_at, CutoffDate)
           /\ AutoCaptured(<<99, 111, 110, 118, 101, 114, 115, 97, 116, 105, 111, 110, 95, 49, 57, 55, 48, 48, 49, 48, 49, 95, 48, 48, 48, 48, 48, 49, 46, 97, 117, 114, 97, 116, 97, 98>>, conversation)
           /\ ~TaggedSaved(conversation)
           /\ ~Earlier(conversation.metadata.created_at, CutoffDate)
    /\ Kept(<<115, 101, 115, 115, 105, 111, 110, 95, 49, 57, 55, 48, 48, 49, 48, 49, 95, 48, 48, 48, 48, 48, 48, 46, 97, 117, 114, 97, 116, 97, 98>>)
    /\ Kept(<<99, 111, 110, 118, 101, 114, 115, 97, 116, 105, 111, 110, 95, 49, 57, 55, 48, 48, 49, 48, 49, 95, 48, 48, 48, 48, 48, 49, 46, 97, 117, 114, 97, 116, 97, 98>>)

(***************************************************************************)
(* C24.  What the cleanup removes.                                         *)
(***************************************************************************)
\* C24: cleanup_old_sessions(days_old) deletes every tablet of ./sessions
\* it can read that is not tagged 'saved', is auto-captured and was
\* created before now - days_old, and the 'removed' it returns is the
\* number of files it deleted.
C24_CleanupRemoves ==
    HandledAction("cleanupOldSessions") =>
        /\ \A name \in DOMAIN handled.before :
              LET read == ReadOf(handled.before, name)
              IN  (/\ read.pc = "returned"
                   /\ ~TaggedSaved(read)
                   /\ AutoCaptured(name, read)
                   /\ Earlier(read.metadata.created_at, CutoffDate))
                  => name \notin DOMAIN sessions
        /\ handled.did.reply.removed
               = Cardinality(DOMAIN handled.before \ DOMAIN sessions)

(***************************************************************************)
(* C25.  The entries of a captured tablet.                                 *)
(***************************************************************************)
\* The last handler was a capture that wrote a tablet.
Captured ==
    /\ HandledAction("captureConversation")
    /\ handled.did.reply.success
    /\ handled.did.tablet_path \in DOMAIN sessions

\* The tablet the last capture wrote, as Tablet.read returns it.
WrittenTablet == ReadOf(sessions, handled.did.tablet_path)

\* C25: every tablet capture_conversation writes holds at most
\* MAX_ENTRIES_PER_TABLET entries, whatever the tablet held before and
\* whatever the message, a list of ten memories or more included.
C25_EntryCountLimit ==
    Captured => Len(WrittenTablet.entries) <= MAX_ENTRIES_PER_TABLET

(***************************************************************************)
(* C26.  The size of a captured entry.                                     *)
(***************************************************************************)
\* C26: every entry capture_conversation adds to a tablet has a diff of at
\* most MAX_ENTRY_SIZE_BYTES characters, however long the content of the
\* memory or the messages of the turn.
C26_EntrySizeLimit ==
    Captured =>
        LET written == WrittenTablet.entries
            added == handled.did.added
        IN  /\ Len(written) >= Len(added)
            /\ \A i \in 1..Len(added) :
                  /\ written[Len(written) - Len(added) + i] = added[i]
                  /\ Len(added[i].diff) <= MAX_ENTRY_SIZE_BYTES

(***************************************************************************)
(* auto_session_tracker.py at work.  tracker holds the class attributes    *)
(* _instance and _initialized, the instances made so far (an instance is   *)
(* a reference to its place in objects, its fields the record there) and   *)
(* the module's global _tracker, None until the module is imported.        *)
(***************************************************************************)
MaxTracked == 2

\* The reference to the n-th object made.
Ref(n) == [obj |-> n]

\* The class and the module before the import.
AutoSessionTracker_class ==
    [_instance |-> None, _initialized |-> FALSE, objects |-> <<>>, _tracker |-> None]

\* AutoSessionTracker.__new__(cls): the class after it; _instance is what
\* it returns.
AutoSessionTracker_new(cls) ==
    IF cls._instance = None
    THEN [cls EXCEPT !.objects = Append(@, [tablet |-> None]),
                     !._instance = Ref(Len(cls.objects) + 1)]
    ELSE cls

\* AutoSessionTracker.__init__(self) on the instance __new__ returned.
AutoSessionTracker_init(cls, seconds) ==
    IF cls._initialized THEN cls
    ELSE [cls EXCEPT !._initialized = TRUE,
                     !.objects[cls._instance.obj].tablet = AutoSessionTracker_tablet(seconds)]

\* AutoSessionTracker()
AutoSessionTracker(cls, seconds) == AutoSessionTracker_init(AutoSessionTracker_new(cls), seconds)

\* AutoSessionTracker.track(self, file_path, diff, notes) on the instance
\* at place obj.
AutoSessionTracker_track(cls, obj, file_path, diff, notes) ==
    IF cls.objects[obj.obj].tablet = None THEN cls
    ELSE [cls EXCEPT !.objects[obj.obj].tablet.entries =
                         Append(@, TabletEntry(file_path, diff, notes))]

\* track(file_path, notes, diff) of the module
track(cls, file_path, notes, diff) ==
    AutoSessionTracker_track(cls, cls._tracker, file_path, notes, diff)

\* The arguments of the calls of track: a path, and for the notes and the
\* diff the empty text of the defaults or 'Fixed bug'.
TrackedPaths == {<<109, 97, 105, 110, 46, 112, 121>>}
TrackedTexts == {<<>>, <<70, 105, 120, 101, 100, 32, 98, 117, 103>>}

\* The entries tracked by the module's tracker.
TrackedEntries(cls) == cls.objects[cls._tracker.obj].tablet.entries

Tracked(action, args, returned) ==
    [action |-> action, message |-> args, before |-> tracker, at |-> clock,
     did |-> returned, nth |-> 0]

\* import auto_session_tracker, the first thing the program does:
\* _tracker = AutoSessionTracker()
ImportTracker ==
    /\ tracker._tracker = None /\ handled = None
    /\ tracker' = [AutoSessionTracker(tracker, clock)
                      EXCEPT !._tracker = AutoSessionTracker(tracker, clock)._instance]
    /\ handled' = Tracked("import", <<>>, tracker'._tracker)
    /\ UNCHANGED <<sessions, clock, state_file, manager>>
    /\ UNCHANGED vars

\* AutoSessionTracker() called again by the program.
ConstructTracker ==
    /\ tracker._tracker # None
    /\ tracker' = AutoSessionTracker(tracker, clock)
    /\ handled' = Tracked("AutoSessionTracker", <<>>, tracker'._instance)
    /\ UNCHANGED <<sessions, clock, state_file, manager>>
    /\ UNCHANGED vars

\* track(file_path, notes, diff)
TrackCall(file_path, notes, diff) ==
    /\ tracker._tracker # None
    /\ Len(TrackedEntries(tracker)) < MaxTracked
    /\ tracker' = track(tracker, file_path, notes, diff)
    /\ handled' = Tracked("track", [file_path |-> file_path, notes |-> notes, diff |-> diff],
                          None)
    /\ UNCHANGED <<sessions, clock, state_file, manager>>
    /\ UNCHANGED vars

\* AutoSessionTracker().track(file_path, diff, notes)
TrackMethodCall(file_path, diff, notes) ==
    /\ tracker._tracker # None
    /\ Len(TrackedEntries(tracker)) < MaxTracked
    /\ tracker' = AutoSessionTracker_track(AutoSessionTracker(tracker, clock),
                                           AutoSessionTracker(tracker, clock)._instance,
                                           file_path, diff, notes)
    /\ handled' = Tracked("AutoSessionTracker.track",
                          [file_path |-> file_path, notes |-> notes, diff |-> diff], None)
    /\ UNCHANGED <<sessions, clock, state_file, manager>>
    /\ UNCHANGED vars

\* The interpreter exits: atexit runs _save_on_exit, and the class and the
\* module are gone with the process.
ExitTracker ==
    /\ tracker._tracker # None
    /\ sessions' = save_on_exit(sessions, tracker.objects[tracker._tracker.obj].tablet, clock)
    /\ tracker' = AutoSessionTracker_class
    /\ handled' = Tracked("exit", <<>>, None)
    /\ UNCHANGED <<clock, state_file, manager>>
    /\ UNCHANGED vars

TrackerInit ==
    /\ CodecIdle
    /\ sessions = <<>> /\ clock = 0 /\ state_file = None
    /\ tracker = AutoSessionTracker_class /\ manager = None /\ handled = None

TrackerNext ==
    \/ ImportTracker
    \/ ConstructTracker
    \/ \E file_path \in TrackedPaths, notes \in TrackedTexts, diff \in TrackedTexts :
          TrackCall(file_path, notes, diff)
    \/ \E file_path \in TrackedPaths, diff \in TrackedTexts, notes \in TrackedTexts :
          TrackMethodCall(file_path, diff, notes)
    \/ ExitTracker
    \/ Tick

TrackerSpec == TrackerInit /\ [][TrackerNext]_<<vars, appVars>>

(***************************************************************************)
(* C27.  The arguments of track, and the one tracker.                      *)
(***************************************************************************)
\* C27: a call track(file_path, notes, diff) of the module appends one
\* entry to the tablet of the one tracker, with file_path as its path,
\* the notes argument as its notes and the diff argument as its diff; and
\* AutoSessionTracker() called again returns the same instance, with the
\* entries tracked so far.
C27_TrackArguments ==
    /\ HandledAction("track") =>
          TrackedEntries(tracker)
              = Append(TrackedEntries(handled.before),
                       TabletEntry(handled.message.file_path, handled.message.diff,
                                   handled.message.notes))
    /\ HandledAction("AutoSessionTracker") =>
          /\ handled.did = handled.before._tracker
          /\ tracker = handled.before

(***************************************************************************)
(* context_manager.py                                                      *)
(***************************************************************************)
RECURSIVE int_str(_)
\* str(n) of an int n >= 0, as json.dump writes it
int_str(n) == IF n < 10 THEN <<48 + n>> ELSE int_str(n \div 10) \o <<48 + (n % 10)>>

RECURSIVE str_int(_)
\* The int json.load makes of the digits of a number.
str_int(digits) ==
    IF digits = <<>> THEN 0
    ELSE 10 * str_int(SubSeq(digits, 1, Len(digits) - 1)) + (digits[Len(digits)] - 48)

\* A line feed and the indentation of a nesting level under indent=2.
NewlineIndent(level) == <<10>> \o Repeat(32, 2 * level)

RECURSIVE json_dumps_indent(_, _)
RECURSIVE json_dumps_indent_items(_, _)
RECURSIVE json_dumps_indent_members(_, _)
json_dumps_indent_items(xs, level) ==
    IF Len(xs) = 1 THEN json_dumps_indent(xs[1], level)
    ELSE json_dumps_indent(xs[1], level) \o <<44>> \o NewlineIndent(level)
         \o json_dumps_indent_items(Tail(xs), level)

json_dumps_indent_members(ps, level) ==
    LET one == json_quote_ascii(ps[1].k) \o <<58, 32>> \o json_dumps_indent(ps[1].v, level)
    IN  IF Len(ps) = 1 THEN one
        ELSE one \o <<44>> \o NewlineIndent(level) \o json_dumps_indent_members(Tail(ps), level)

\* json.dump(value, f, indent=2): every item and member on a line of its
\* own, an empty list or dict as [] or {}.
json_dumps_indent(x, level) ==
    CASE x.t = "arr" /\ x.a # <<>> ->
            <<91>> \o NewlineIndent(level + 1) \o json_dumps_indent_items(x.a, level + 1)
            \o NewlineIndent(level) \o <<93>>
      [] x.t = "obj" /\ x.a # <<>> ->
            <<123>> \o NewlineIndent(level + 1) \o json_dumps_indent_members(x.a, level + 1)
            \o NewlineIndent(level) \o <<125>>
      [] OTHER -> json_dumps_default(x)

K_message_count == <<109, 101, 115, 115, 97, 103, 101, 95, 99, 111, 117, 110, 116>>
K_last_load == <<108, 97, 115, 116, 95, 108, 111, 97, 100>>

\* The messages between two reminders.
MessagesPerReminder == 25

\* load_state(): the dict of the state file, or the default one.  A file
\* that is not JSON raises.
load_state(file) ==
    IF file = None
    THEN [err |-> NoError,
          state |-> <<Pair(K_message_count, JNum(<<48>>)),
                      Pair(<<97, 99, 116, 105, 118, 101, 95, 116, 97, 98, 108, 101, 116>>, JNull),
                      Pair(<<97, 99, 116, 105, 118, 101, 95, 99, 97, 112, 115, 117, 108, 101>>, JNull),
                      Pair(K_last_load, JNull),
                      Pair(<<108, 97, 115, 116, 95, 114, 101, 109, 105, 110, 100, 101, 114>>, JNull)>>]
    ELSE IF ~json_loads(file).ok
         THEN [err |-> "json.JSONDecodeError", state |-> <<>>]
    ELSE [err |-> NoError, state |-> json_loads(file).val.a]

\* save_state(): the text written to the state file.
save_state(state) == json_dumps_indent(JObj(state), 0)

\* self.state["message_count"]
message_count(state) == str_int(DictGet(state, K_message_count, JNull).s)

\* increment_message_count(): [state, state_file, returned]
increment_message_count(state) ==
    [state |-> DictSet(state, K_message_count, JNum(int_str(message_count(state) + 1))),
     state_file |-> save_state(DictSet(state, K_message_count,
                                       JNum(int_str(message_count(state) + 1)))),
     returned |-> (message_count(state) + 1) % MessagesPerReminder = 0]

\* SESSIONS_DIR.glob("persistent_*.auratab")
glob_persistent(dir) == {n \in glob_auratab(dir) : startswith(n, <<112, 101, 114, 115, 105, 115, 116, 101, 110, 116, 95>>)}

\* sorted(tablet_files)[-1]; the path of today's tablet where there is none.
LatestPersistent(dir, seconds) ==
    IF glob_persistent(dir) = {}
    THEN <<112, 101, 114, 115, 105, 115, 116, 101, 110, 116, 95>> \o strftime_Ymd(datetime_now(seconds)) \o <<46, 97, 117, 114, 97, 116, 97, 98>>
    ELSE CHOOSE n \in glob_persistent(dir) : \A m \in glob_persistent(dir) : ~StrLess(n, m)

\* _get_or_create_tablet() from the point where the latest persistent
\* tablet, if there is one, has been read: [err, tablet, sessions]
get_or_create_tablet(dir, seconds, read) ==
    IF glob_persistent(dir) # {}
    THEN IF read.pc = "raised"
         THEN [err |-> read.err, tablet |-> None, sessions |-> dir]
         ELSE [err |-> NoError, tablet |-> Tablet(read.metadata, read.entries),
               sessions |-> dir]
    ELSE [err |-> NoError,
          tablet |-> Tablet(TabletMetadata(JStr(<<80, 101, 114, 115, 105, 115, 116, 101, 110, 116, 32, 77, 101, 109, 111, 114, 121, 32>>
                                                \o strftime_Y_m_d(datetime_now(seconds))),
                                           JStr(<<76, 111, 110, 103, 45, 116, 101, 114, 109, 32, 99, 111, 110, 116, 101, 120, 116, 117, 97, 108, 32, 109, 101, 109, 111, 114, 105, 101, 115, 32, 102, 111, 114, 32, 77, 101, 100, 105, 99, 105, 110, 101, 32, 67, 97, 98, 105, 110, 101, 116>>),
                                           JNull,
                                           <<<<112, 101, 114, 115, 105, 115, 116, 101, 110, 116>>, <<108, 111, 110, 103, 45, 116, 101, 114, 109>>, <<115, 97, 118, 101, 100>>>>,
                                           seconds),
                            <<>>),
          sessions |-> write_bytes(dir, LatestPersistent(dir, seconds),
                                   Tablet_to_bytes(Tablet(TabletMetadata(JStr(<<80, 101, 114, 115, 105, 115, 116, 101, 110, 116, 32, 77, 101, 109, 111, 114, 121, 32>>
                                                \o strftime_Y_m_d(datetime_now(seconds))),
                                           JStr(<<76, 111, 110, 103, 45, 116, 101, 114, 109, 32, 99, 111, 110, 116, 101, 120, 116, 117, 97, 108, 32, 109, 101, 109, 111, 114, 105, 101, 115, 32, 102, 111, 114, 32, 77, 101, 100, 105, 99, 105, 110, 101, 32, 67, 97, 98, 105, 110, 101, 116>>),
                                           JNull,
                                           <<<<112, 101, 114, 115, 105, 115, 116, 101, 110, 116>>, <<108, 111, 110, 103, 45, 116, 101, 114, 109>>, <<115, 97, 118, 101, 100>>>>,
                                           seconds),
                            <<>>)))]

\* _create_fresh_capsule()
create_fresh_capsule(seconds) ==
    ContextCapsule([project |-> JStr(<<77, 101, 100, 105, 99, 105, 110, 101, 45, 67, 97, 98, 105, 110, 101, 116>>),
                    summary |-> JStr(<<65, 99, 116, 105, 118, 101, 32, 115, 101, 115, 115, 105, 111, 110, 32>>
                                     \o strftime_Y_m_d_H_M(datetime_now(seconds))),
                    author |-> JNull, created_at |-> datetime_now_utc(seconds),
                    branch |-> JStr(<<109, 97, 105, 110>>), revision |-> JNull, extra |-> JObj(<<>>)],
                   set_section(<<>>,
                               CapsuleSection(<<116, 97, 115, 107, 95, 111, 98, 106, 101, 99, 116, 105, 118, 101>>, TEXT,
                                              utf8_encode(<<65, 115, 115, 105, 115, 116, 32, 119, 105, 116, 104, 32, 77, 101, 100, 105, 99, 105, 110, 101, 32, 67, 97, 98, 105, 110, 101, 116, 32, 100, 101, 118, 101, 108, 111, 112, 109, 101, 110, 116, 32, 97, 110, 100, 32, 117, 115, 97, 103, 101>>)),
                               TRUE))

\* load_context() from the point where _get_or_create_tablet has returned
\* got: [err, state, state_file, sessions, returned].  An exception of
\* load_tablet leaves the state as it was.
load_context_got(state, file, seconds, got) ==
    IF got.err # NoError
    THEN [err |-> got.err, state |-> state, state_file |-> file, sessions |-> got.sessions,
          returned |-> None]
    ELSE [err |-> NoError,
          state |-> DictSet(DictSet(state, K_last_load,
                                    JStr(isoformat(datetime_now_utc(seconds)))),
                            K_message_count, JNum(int_str(0))),
          state_file |-> save_state(DictSet(DictSet(state, K_last_load,
                                                    JStr(isoformat(datetime_now_utc(seconds)))),
                                            K_message_count, JNum(int_str(0)))),
          sessions |-> got.sessions,
          returned |-> [tablet |-> got.tablet, capsule |-> create_fresh_capsule(seconds),
                        message_count |-> 0]]

\* ContextManager.load_context()
load_context(state, file, dir, seconds, read) ==
    load_context_got(state, file, seconds, get_or_create_tablet(dir, seconds, read))

\* text.lower(), of ASCII text
lower(text) == [i \in 1..Len(text) |-> IF text[i] >= 65 /\ text[i] <= 90 THEN text[i] + 32
                                       ELSE text[i]]

\* sub in text
Contains(text, sub) ==
    \E i \in 1..(Len(text) - Len(sub) + 1) : SubSeq(text, i, i + Len(sub) - 1) = sub

contextual_keywords ==
    {<<105, 109, 112, 108, 101, 109, 101, 110, 116>>, <<99, 111, 100, 101>>, <<102, 117, 110, 99, 116, 105, 111, 110>>, <<99, 108, 97, 115, 115>>, <<101, 114, 114, 111, 114>>, <<98, 117, 103>>, <<102, 105, 120>>,
     <<100, 101, 115, 105, 103, 110>>, <<97, 114, 99, 104, 105, 116, 101, 99, 116, 117, 114, 101>>, <<112, 108, 97, 110>>, <<100, 101, 99, 105, 115, 105, 111, 110>>, <<97, 112, 112, 114, 111, 97, 99, 104>>, <<115, 111, 108, 117, 116, 105, 111, 110>>,
     <<97, 108, 103, 111, 114, 105, 116, 104, 109>>}

\* _is_contextual(user_msg, copilot_msg)
is_contextual(user_msg, copilot_msg) ==
    \/ \E keyword \in contextual_keywords :
          Contains(lower(user_msg \o <<32>> \o copilot_msg), keyword)
    \/ Contains(user_msg, <<96, 96, 96>>) \/ Contains(copilot_msg, <<96, 96, 96>>)
    \/ \E ext \in {<<46, 112, 121>>, <<46, 106, 115>>, <<46, 116, 115>>, <<46, 106, 115, 111, 110>>} :
          Contains(lower(user_msg \o <<32>> \o copilot_msg), ext)

\* The entry update_from_conversation adds for a contextual turn.
contextual_entry(user_message, copilot_response, seconds) ==
    TabletEntry(<<99, 111, 110, 118, 101, 114, 115, 97, 116, 105, 111, 110, 47>> \o strftime_Ymd_HMS(datetime_now(seconds)),
                <<85, 83, 69, 82, 58, 32>> \o user_message \o <<10, 10, 67, 79, 80, 73, 76, 79, 84, 58, 32>> \o UpTo(copilot_response, 500),
                <<67, 111, 110, 116, 101, 120, 116, 117, 97, 108, 32, 109, 101, 109, 111, 114, 121, 32, 102, 114, 111, 109, 32, 99, 111, 110, 118, 101, 114, 115, 97, 116, 105, 111, 110>>)

\* update_from_conversation from the point where load_context has returned
\* context: the same record, with the dict the method returns.
update_from_conversation_loaded(context, user_message, copilot_response, seconds) ==
    IF context.err # NoError THEN context
    ELSE [err |-> NoError,
          state |-> increment_message_count(context.state).state,
          state_file |-> increment_message_count(context.state).state_file,
          sessions |->
              IF is_contextual(user_message, copilot_response)
              THEN Tablet_write(context.sessions,
                                <<112, 101, 114, 115, 105, 115, 116, 101, 110, 116, 95>> \o strftime_Ymd(datetime_now(seconds))
                                    \o <<46, 97, 117, 114, 97, 116, 97, 98>>,
                                Tablet(context.returned.tablet.metadata,
                                       Append(context.returned.tablet.entries,
                                              contextual_entry(user_message, copilot_response,
                                                               seconds))))
              ELSE context.sessions,
          returned |-> [updated |-> TRUE,
                        needs_reminder |-> increment_message_count(context.state).returned,
                        message_count |->
                            message_count(increment_message_count(context.state).state)]]

\* ContextManager.update_from_conversation(user_message, copilot_response)
update_from_conversation(state, file, dir, user_message, copilot_response, seconds, read) ==
    update_from_conversation_loaded(load_context(state, file, dir, seconds, read),
                                    user_message, copilot_response, seconds)

(***************************************************************************)
(* The context manager as a state machine: state_file is the text of       *)
(* ~/.medicine_cabinet/context_state.json (None while there is none),      *)
(* manager the ContextManager of the running process, sessions the         *)
(* directory ./sessions.                                                   *)
(***************************************************************************)
MaxTurns == 26
MaxMemories == 1

\* Conversation turns: one that is not contextual and one that is.
ConversationTurns ==
    {[user_message |-> <<104, 105>>, copilot_response |-> <<121, 111>>],
     [user_message |-> <<70, 105, 120, 32, 105, 116>>, copilot_response |-> <<111, 107>>]}

\* The turns recorded since the last context load asked for by the caller
\* (or since the state file was new).
TurnsSoFar == IF handled = None THEN 0 ELSE handled.nth

Managed(action, args, returned, turns) ==
    [action |-> action, message |-> args, before |-> state_file, at |-> clock,
     did |-> returned, nth |-> turns]

\* manager = ContextManager(), in the first process or in a later one
NewContextManager ==
    /\ load_state(state_file).err = NoError
    /\ manager' = [state |-> load_state(state_file).state]
    /\ UNCHANGED <<sessions, clock, state_file, tracker, handled>>
    /\ UNCHANGED vars

\* manager.increment_message_count()
ContextManager_increment_message_count ==
    /\ manager # None
    /\ TurnsSoFar < MaxTurns
    /\ handled' = Managed("increment_message_count", <<>>,
                          increment_message_count(manager.state), TurnsSoFar + 1)
    /\ manager' = [state |-> handled'.did.state]
    /\ state_file' = handled'.did.state_file
    /\ UNCHANGED <<sessions, clock, tracker>>
    /\ UNCHANGED vars

ContextManager_load_context_read(read) ==
    /\ manager # None
    /\ handled' = Managed("load_context", <<>>,
                          load_context(manager.state, state_file, sessions, clock, read),
                          IF glob_persistent(sessions) # {} /\ read.pc = "raised"
                          THEN TurnsSoFar ELSE 0)
    /\ manager' = [state |-> handled'.did.state]
    /\ state_file' = handled'.did.state_file
    /\ sessions' = handled'.did.sessions
    /\ UNCHANGED <<clock, tracker>>
    /\ UNCHANGED vars

\* manager.load_context()
ContextManager_load_context ==
    ContextManager_load_context_read(Tablet_read(sessions, LatestPersistent(sessions, clock),
                                                 clock))

ContextManager_update_from_conversation_read(turn, read) ==
    /\ manager # None
    /\ TurnsSoFar < MaxTurns
    /\ is_contextual(turn.user_message, turn.copilot_response)
          => read.pc = "raised" \/ Len(read.entries) < MaxMemories
    /\ handled' = Managed("update_from_conversation", turn,
                          update_from_conversation(manager.state, state_file, sessions,
                                                   turn.user_message, turn.copilot_response,
                                                   clock, read),
                          TurnsSoFar + 1)
    /\ manager' = [state |-> handled'.did.state]
    /\ state_file' = handled'.did.state_file
    /\ sessions' = handled'.did.sessions
    /\ UNCHANGED <<clock, tracker>>
    /\ UNCHANGED vars

\* manager.update_from_conversation(user_message, copilot_response)
ContextManager_update_from_conversation(turn) ==
    ContextManager_update_from_conversation_read(
        turn, Tablet_read(sessions, LatestPersistent(sessions, clock), clock))

ManagerInit ==
    /\ CodecIdle
    /\ sessions = <<>> /\ clock = 0 /\ state_file = None
    /\ tracker = None /\ manager = None /\ handled = None

ManagerNext ==
    \/ NewContextManager
    \/ ContextManager_increment_message_count
    \/ ContextManager_load_context
    \/ \E turn \in ConversationTurns : ContextManager_update_from_conversation(turn)

ManagerSpec == ManagerInit /\ [][ManagerNext]_<<vars, appVars>>

(***************************************************************************)
(* C28.  A reminder every 25 messages.                                     *)
(***************************************************************************)
\* The message_count the state file holds.
PersistedCount(file) == message_count(load_state(file).state)

\* The last call recorded a conversation turn.
TurnRecorded ==
    HandledAction("increment_message_count") \/ HandledAction("update_from_conversation")

\* Whether the last call said that a reminder is due.
ReminderDue ==
    IF HandledAction("increment_message_count") THEN handled.did.returned
    ELSE handled.did.returned.needs_reminder

\* C28: increment_message_count raises the message_count of the state file
\* by exactly 1 and returns True exactly when the new count is a multiple
\* of 25; so, of the turns recorded since the last context load, through
\* increment_message_count or through update_from_conversation, the 25th,
\* the 50th, ... and no other makes a reminder due.
C28_ReminderEvery25 ==
    /\ HandledAction("increment_message_count") =>
          /\ PersistedCount(state_file) = PersistedCount(handled.before) + 1
          /\ handled.did.returned = (PersistedCount(state_file) % MessagesPerReminder = 0)
    /\ TurnRecorded => (ReminderDue = (handled.nth % MessagesPerReminder = 0))

\* The half of C28 about increment_message_count alone.
C28_IncrementAlone ==
    HandledAction("increment_message_count") =>
        /\ PersistedCount(state_file) = PersistedCount(handled.before) + 1
        /\ handled.did.returned = (PersistedCount(state_file) % MessagesPerReminder = 0)

\* A reminder was due after a call of increment_message_count.
C28_ReminderReached == HandledAction("increment_message_count") /\ handled.did.returned

====
